---- MODULE Spec2Model ----
(***************************************************************************)
(* Replication engine of the concurrent text editor: the RGA store         *)
(* (crdt.py) and the session controller around it (concurrency.py).        *)
(*                                                                         *)
(* A string is a sequence of one-character strings, so that render() is a  *)
(* concatenation and len() is Len.  An OpId is the pair <<counter,         *)
(* client>>.  A Python dict is a function; the insertion order of          *)
(* RgaCrdt.nodes, which to_dict() iterates, is kept beside it as `order`.  *)
(***************************************************************************)
EXTENDS Integers, Sequences, FiniteSets, TLC

\* ------------------------------------------------------------- bounds
\* Characters inserted or deleted by local edits, and ticks of the
\* anti-entropy timer, in one behaviour.
MaxOps == 3
\* Longest text inserted by one paste.
MaxPaste == 2
\* Longest pending buffer; a delivery that would buffer beyond it is not taken.
MaxPending == 2

\* STATE_CHECK ticks of the anti-entropy timer, all replicas together.
MaxChecks == 1

\* share_file calls in a run.
MaxInvites == 1
\* Most questions about invitations waiting at one replica; a delivery that
\* would queue one more is not taken.
MaxAsking == 2
\* leave_session calls in a run that end a session (calls with an empty peer
\* map are not counted).
MaxLeaves == 1

\* ------------------------------------------------------ configuration
\* The client ids of the replicas of the session.
Clients == {"A", "B"}
\* The characters typed at each replica: one letter per user, so that a
\* rendered text shows whose character stands where.
Typed == [r \in Clients |-> CASE r = "A" -> {"a"} [] r = "B" -> {"b"} [] r = "C" -> {"c"}]

VARIABLES
    crdt,          \* r -> the replica's RgaCrdt: [nodes, children, order]
    crdt_counter,  \* r -> Lamport counter
    pending_ops,   \* r -> buffer of out-of-order operations
    cursor_node,   \* r -> the cursor anchor
    text,          \* r -> content of the QTextEdit
    caret,         \* r -> position of the QTextEdit's text cursor
    peers,         \* r -> keys of the peer map
    net,           \* datagrams sent so far: [to, msg]
    handled,       \* datagrams the addressee has handled at least once
    issued,        \* r -> the OpIds next_op_id returned, in order (history)
    nops,          \* characters edited locally so far (history, bounds the run)
    step,          \* what the step just taken did (history): the ops flushed
                   \* and the caret shift of a CRDT_INSERT, the ops cleared
                   \* by a SNAPSHOT, the replica whose leave_session returned,
                   \* the characters a local insert put into the store,
                   \* the passes of the flush a CRDT_INSERT ran
    rga,           \* x -> an RgaCrdt driven through its methods alone
    opset,         \* the operations applied to the stores of rga
    applied,       \* x -> the operations of opset applied to rga[x] so far
    ret,           \* the value the last call on rga returned
    hashseed,      \* replica -> the string-hash seed of its Python process
    nchecks,       \* STATE_CHECK ticks so far
    seen_invites,  \* r -> the invite ids r has put a question for
    asking,        \* r -> the INVITEs whose question waits in r's event loop
    invites,       \* share_file calls so far: the invite ids drawn
    prompted,      \* r -> the invite ids r's user was ever asked about (history)
    leaves,        \* leave_session calls so far that ended a session
    notices,       \* r -> the newcomers whose "joined" notice is open at r
    recv_data,     \* r -> what r's listen thread holds: <<>> or <<datagram>>
    queue          \* r -> the messages r's listen thread has emitted so far

vars == <<crdt, crdt_counter, pending_ops, cursor_node, text, caret, peers,
          net, handled, issued, nops, step, rga, opset, applied, ret,
          hashseed, nchecks, seen_invites, asking, invites, prompted,
          leaves, notices, recv_data, queue>>

\* The variables of session membership besides the peer map.
mesh_vars == <<seen_invites, asking, invites, prompted, leaves, notices>>

\* The variables of the listen thread.
io_vars == <<recv_data, queue>>

\* The variables of the anti-entropy timer and hashes.
ae_vars == <<hashseed, nchecks>>

\* The variables of the RGA store driven alone.
store_vars == <<rga, opset, applied, ret>>

\* ------------------------------------------------------------ crdt.py
HEAD == <<0, "HEAD">>

Node(id, after, txt, deleted) ==
    [id |-> id, after |-> after, text |-> txt, deleted |-> deleted]

\* Python's < on str, for the strings that occur as the client of an OpId.
StrRank == [c \in Clients \cup {"C", "HEAD"} |->
              CASE c = "A" -> 1 [] c = "B" -> 2 [] c = "C" -> 3 [] c = "HEAD" -> 4]

\* Python's < on the tuples (counter, client): lexicographic.
tuple_lt(a, b) ==
    \/ a[1] < b[1]
    \/ a[1] = b[1] /\ StrRank[a[2]] < StrRank[b[2]]

RECURSIVE insert_sorted(_, _)
insert_sorted(x, seq) ==
    IF seq = <<>> THEN <<x>>
    ELSE IF tuple_lt(Head(seq), x) THEN <<x>> \o seq
    ELSE <<Head(seq)>> \o insert_sorted(x, Tail(seq))

RECURSIVE sort_reverse_from(_, _)
sort_reverse_from(seq, acc) ==
    IF seq = <<>> THEN acc
    ELSE sort_reverse_from(Tail(seq), insert_sorted(Head(seq), acc))

RECURSIVE insert_ascending(_, _)
insert_ascending(x, seq) ==
    IF seq = <<>> THEN <<x>>
    ELSE IF tuple_lt(x, Head(seq)) THEN <<x>> \o seq
    ELSE <<Head(seq)>> \o insert_ascending(x, Tail(seq))

RECURSIVE sort_ascending_from(_, _)
sort_ascending_from(seq, acc) ==
    IF seq = <<>> THEN acc
    ELSE sort_ascending_from(Tail(seq), insert_ascending(Head(seq), acc))

\* Mutant of sort_reverse: list.sort() without reverse=True.
sort_ascending(seq) == sort_ascending_from(seq, <<>>)

\* list.sort(reverse=True): descending.
sort_reverse(seq) == sort_reverse_from(seq, <<>>)

\* dict.setdefault(k, []) on a dict of lists.
setdefault(d, k) == IF k \in DOMAIN d THEN d ELSE d @@ (k :> <<>>)

\* RgaCrdt.__init__
RgaCrdt ==
    [nodes    |-> (HEAD :> Node(HEAD, HEAD, <<>>, FALSE)),
     children |-> (HEAD :> <<>>),
     order    |-> <<HEAD>>]

has(s, node_id) == node_id \in DOMAIN s.nodes

\* Mutant of apply_insert: the check that `after` is in the store is missing.
apply_insert_unchecked(s, after, node_id, txt) ==
    IF node_id \in DOMAIN s.nodes THEN [ok |-> TRUE, crdt |-> s]
    ELSE
        LET c1 == setdefault(s.children, after)
            c2 == [c1 EXCEPT ![after] = sort_reverse(Append(c1[after], node_id))]
            c3 == setdefault(c2, node_id)
        IN  [ok   |-> TRUE,
             crdt |-> [nodes    |-> s.nodes @@ (node_id :> Node(node_id, after, txt, FALSE)),
                       children |-> c3,
                       order    |-> Append(s.order, node_id)]]

\* Mutant of apply_insert: children[after] is appended to and not sorted.
apply_insert_unsorted(s, after, node_id, txt) ==
    IF after \notin DOMAIN s.nodes THEN [ok |-> FALSE, crdt |-> s]
    ELSE IF node_id \in DOMAIN s.nodes THEN [ok |-> TRUE, crdt |-> s]
    ELSE
        LET c1 == setdefault(s.children, after)
            c2 == [c1 EXCEPT ![after] = Append(c1[after], node_id)]
            c3 == setdefault(c2, node_id)
        IN  [ok   |-> TRUE,
             crdt |-> [nodes    |-> s.nodes @@ (node_id :> Node(node_id, after, txt, FALSE)),
                       children |-> c3,
                       order    |-> Append(s.order, node_id)]]

\* Mutant of apply_insert: the new node is not entered in children[after].
apply_insert_unindexed(s, after, node_id, txt) ==
    IF after \notin DOMAIN s.nodes THEN [ok |-> FALSE, crdt |-> s]
    ELSE IF node_id \in DOMAIN s.nodes THEN [ok |-> TRUE, crdt |-> s]
    ELSE
        [ok   |-> TRUE,
         crdt |-> [nodes    |-> s.nodes @@ (node_id :> Node(node_id, after, txt, FALSE)),
                   children |-> setdefault(setdefault(s.children, after), node_id),
                   order    |-> Append(s.order, node_id)]]

\* RgaCrdt.apply_insert: the returned bool and the store afterwards.
apply_insert(s, after, node_id, txt) ==
    IF after \notin DOMAIN s.nodes THEN [ok |-> FALSE, crdt |-> s]
    ELSE IF node_id \in DOMAIN s.nodes THEN [ok |-> TRUE, crdt |-> s]
    ELSE
        LET c1 == setdefault(s.children, after)
            c2 == [c1 EXCEPT ![after] = sort_reverse(Append(c1[after], node_id))]
            c3 == setdefault(c2, node_id)
        IN  [ok   |-> TRUE,
             crdt |-> [nodes    |-> s.nodes @@ (node_id :> Node(node_id, after, txt, FALSE)),
                       children |-> c3,
                       order    |-> Append(s.order, node_id)]]

\* Mutant of apply_delete: the text of the tombstoned node is dropped.
apply_delete_clear(s, node_id) ==
    IF node_id \notin DOMAIN s.nodes THEN [ok |-> FALSE, crdt |-> s]
    ELSE IF node_id = HEAD THEN [ok |-> TRUE, crdt |-> s]
    ELSE [ok   |-> TRUE,
          crdt |-> [s EXCEPT !.nodes[node_id].deleted = TRUE,
                             !.nodes[node_id].text = <<>>]]

\* RgaCrdt.apply_delete
apply_delete(s, node_id) ==
    IF node_id \notin DOMAIN s.nodes THEN [ok |-> FALSE, crdt |-> s]
    ELSE IF node_id = HEAD THEN [ok |-> TRUE, crdt |-> s]
    ELSE [ok   |-> TRUE,
          crdt |-> [s EXCEPT !.nodes[node_id].deleted = TRUE]]

RECURSIVE dfs(_, _), dfs_children(_, _)

\* Mutant of dfs: the subtree of a tombstoned node is not visited.
dfs_children_pruned(s, cs) ==
    IF cs = <<>> THEN <<>>
    ELSE LET cid == Head(cs)
             n   == s.nodes[cid]
         IN  (IF ~n.deleted THEN <<cid>> \o dfs(s, cid) ELSE <<>>)
                 \o dfs_children(s, Tail(cs))

\* The closure dfs of _visible_nodes_in_order: the ids of the visible nodes.
dfs_children(s, cs) ==
    IF cs = <<>> THEN <<>>
    ELSE LET cid == Head(cs)
             n   == s.nodes[cid]
         IN  (IF ~n.deleted THEN <<cid>> ELSE <<>>)
                 \o dfs(s, cid) \o dfs_children(s, Tail(cs))

dfs(s, parent) ==
    dfs_children(s, IF parent \in DOMAIN s.children THEN s.children[parent] ELSE <<>>)

visible_nodes_in_order(s) == dfs(s, HEAD)

RECURSIVE join_text(_, _)
join_text(s, ids) ==
    IF ids = <<>> THEN <<>>
    ELSE s.nodes[Head(ids)].text \o join_text(s, Tail(ids))

\* RgaCrdt.render
render(s) == join_text(s, visible_nodes_in_order(s))

RECURSIVE repeat_ids(_, _)
repeat_ids(s, ids) ==
    IF ids = <<>> THEN <<>>
    ELSE [i \in 1..Len(s.nodes[Head(ids)].text) |-> Head(ids)]
             \o repeat_ids(s, Tail(ids))

\* RgaCrdt.visible_id_map: one entry per character of every visible node.
visible_id_map(s) == repeat_ids(s, visible_nodes_in_order(s))

\* hash(str) within the process whose hash seed is seed: the empty string
\* hashes to 0 in every process, and two strings of one process are taken to
\* hash alike only when they are equal.
hash(str, seed) == IF str = <<>> THEN <<0, <<>>>> ELSE <<seed, str>>

\* RgaCrdt.state_hash, in the process whose hash seed is seed.
state_hash(s, seed) == hash(render(s), seed)

\* list(t) of a tuple t, as JSON carries it, and tuple(l) of such a list.
list(t) == [list |-> t]

tuple(l) == l.list

\* RgaCrdt.to_dict: the nodes in the order of the dict nodes.
to_dict(s) ==
    [nodes |-> [k \in 1..Len(s.order) |->
                  LET node == s.nodes[s.order[k]]
                  IN  [id      |-> list(node.id),
                       after   |-> list(node.after),
                       text    |-> node.text,
                       deleted |-> node.deleted]]]

\* The first loop of from_dict over the nodes of data, from the store c.
RECURSIVE from_dict_nodes(_, _)
from_dict_nodes(nodes_list, c) ==
    IF nodes_list = <<>> THEN c
    ELSE
        LET node_data == Head(nodes_list)
            node_id   == tuple(node_data.id)
            after_id  == tuple(node_data.after)
            node      == Node(node_id, after_id, node_data.text, node_data.deleted)
            c1 == IF node_id # after_id
                  THEN LET d == setdefault(c.children, after_id)
                       IN  [d EXCEPT ![after_id] = Append(d[after_id], node_id)]
                  ELSE c.children
            c2 == setdefault(c1, node_id)
        IN  from_dict_nodes(Tail(nodes_list),
                [nodes    |-> [k \in DOMAIN c.nodes \cup {node_id} |->
                                 IF k = node_id THEN node ELSE c.nodes[k]],
                 children |-> c2,
                 order    |-> IF node_id \in DOMAIN c.nodes THEN c.order
                              ELSE Append(c.order, node_id)])

\* The store from_dict starts from: no node and no children list.
empty_crdt == [nodes |-> <<>>, children |-> <<>>, order |-> <<>>]

\* Mutant of from_dict: the children lists are left in the order of data.
from_dict_unsorted(data) == from_dict_nodes(data.nodes, empty_crdt)

\* RgaCrdt.from_dict
from_dict(data) ==
    LET c == from_dict_nodes(data.nodes, empty_crdt)
    IN  [c EXCEPT !.children = [k \in DOMAIN c.children |-> sort_reverse(c.children[k])]]

\* ----------------------------------------------- concurrency.py: helpers
\* Mutant of next_op_id: the counter is not incremented.
next_op_id_stale(counter, client_id) ==
    [counter |-> counter, id |-> <<counter, client_id>>]

\* next_op_id: the counter after the call and the id returned.
next_op_id(counter, client_id) ==
    [counter |-> counter + 1, id |-> <<counter + 1, client_id>>]

\* Mutant of _update_lamport_clock: the remote counter is taken as it is.
update_lamport_clock_assign(counter, remote_counter) == remote_counter

\* Mutant of _update_lamport_clock: the counter is left as it was.
update_lamport_clock_kept(counter, remote_counter) == counter

\* _update_lamport_clock: the counter after the call.
update_lamport_clock(counter, remote_counter) ==
    IF remote_counter > counter THEN remote_counter ELSE counter

\* _update_cursor_node_from_position: the anchor for GUI position pos.
update_cursor_node_from_position(s, pos) ==
    LET id_map == visible_id_map(s)
    IN  IF pos = 0 THEN HEAD
        ELSE IF pos <= Len(id_map) THEN id_map[pos]
        ELSE IF id_map # <<>> THEN id_map[Len(id_map)]
        ELSE HEAD

\* enumerate(id_map): the least i + 1 with id_map[i] == node_id, 0 if none.
first_index(id_map, node_id) ==
    LET hits == {i \in 1..Len(id_map) : id_map[i] = node_id}
    IN  IF hits = {} THEN 0 ELSE CHOOSE i \in hits : \A j \in hits : i <= j

\* Mutant of broadcast_insert: every character is inserted after the anchor.
RECURSIVE broadcast_insert_at_anchor(_, _, _, _, _)
broadcast_insert_at_anchor(s, counter, client_id, node_id, txt) ==
    IF txt = <<>>
    THEN [crdt |-> s, counter |-> counter, cursor_node |-> node_id, sent |-> <<>>]
    ELSE LET n  == next_op_id(counter, client_id)
             a  == apply_insert(s, node_id, n.id, <<Head(txt)>>)
             op == [type |-> "CRDT_INSERT", after |-> node_id,
                    node_id |-> n.id, char |-> <<Head(txt)>>]
             b  == broadcast_insert_at_anchor(a.crdt, n.counter, client_id,
                                              node_id, Tail(txt))
         IN  [crdt |-> b.crdt, counter |-> b.counter,
              cursor_node |-> IF Tail(txt) = <<>> THEN n.id ELSE b.cursor_node,
              sent |-> <<op>> \o b.sent]

\* Mutant of walk_after_chain: no walk, the caret goes to the start.
walk_to_start(s, id_map, current_id) == 0

\* The while loop of _get_cursor_position_from_node.
RECURSIVE walk_after_chain(_, _, _)
walk_after_chain(s, id_map, current_id) ==
    IF current_id = HEAD THEN 0
    ELSE IF current_id \notin DOMAIN s.nodes THEN 0
    ELSE LET node == s.nodes[current_id]
         IN  IF ~node.deleted /\ first_index(id_map, current_id) # 0
             THEN first_index(id_map, current_id)
             ELSE walk_after_chain(s, id_map, node.after)

\* _get_cursor_position_from_node
get_cursor_position_from_node(s, node_id) ==
    IF node_id = HEAD THEN 0
    ELSE LET id_map == visible_id_map(s)
         IN  IF first_index(id_map, node_id) # 0
             THEN first_index(id_map, node_id)
             ELSE walk_after_chain(s, id_map, node_id)

Min(a, b) == IF a < b THEN a ELSE b

\* Mutant of sync_text_from_crdt: the caret is not restored after
\* setPlainText, which leaves it at 0.
sync_text_caret_lost(s, node_id, cur_text, cur_caret) ==
    LET new_text == render(s)
    IN  IF new_text # cur_text
        THEN [text |-> new_text, caret |-> 0]
        ELSE [text |-> cur_text, caret |-> cur_caret]

\* Mutant of sync_text_from_crdt: the view is left as it is.
sync_text_kept(s, node_id, cur_text, cur_caret) ==
    [text |-> cur_text, caret |-> cur_caret]

\* _sync_text_from_crdt: the view's text and caret after the call.
sync_text_from_crdt(s, node_id, cur_text, cur_caret) ==
    LET new_text == render(s)
    IN  IF new_text # cur_text
        THEN [text  |-> new_text,
              caret |-> Min(get_cursor_position_from_node(s, node_id), Len(new_text))]
        ELSE [text |-> cur_text, caret |-> cur_caret]

\* _move_cursor: the caret after the call.
move_cursor(position, cur_text) == Min(position, Len(cur_text))

\* The loop of _broadcast_insert over the characters of txt.
RECURSIVE broadcast_insert_loop(_, _, _, _, _, _)
broadcast_insert_loop(s, counter, client_id, after_id, txt, sent) ==
    IF txt = <<>>
    THEN [crdt |-> s, counter |-> counter, cursor_node |-> after_id, sent |-> sent]
    ELSE LET n  == next_op_id(counter, client_id)
             a  == apply_insert(s, after_id, n.id, <<Head(txt)>>)
             op == [type |-> "CRDT_INSERT", after |-> after_id,
                    node_id |-> n.id, char |-> <<Head(txt)>>]
         IN  broadcast_insert_loop(a.crdt, n.counter, client_id, n.id,
                                   Tail(txt), Append(sent, op))

\* _broadcast_insert: store, counter and anchor afterwards, and the ops sent.
broadcast_insert(s, counter, client_id, node_id, txt) ==
    broadcast_insert_loop(s, counter, client_id, node_id, txt, <<>>)

\* Mutant of broadcast_delete: the anchor is left where it was.
broadcast_delete_anchor_kept(s, node_id, index) ==
    LET id_map == visible_id_map(s)
    IN  IF index < 1 \/ index > Len(id_map)
        THEN [crdt |-> s, cursor_node |-> node_id, sent |-> <<>>]
        ELSE [crdt        |-> apply_delete(s, id_map[index]).crdt,
              cursor_node |-> node_id,
              sent        |-> <<[type |-> "CRDT_DELETE", node_id |-> id_map[index]]>>]

\* _broadcast_delete: store and anchor afterwards, and the ops sent.
broadcast_delete(s, node_id, index) ==
    LET id_map == visible_id_map(s)
    IN  IF index < 1 \/ index > Len(id_map)
        THEN [crdt |-> s, cursor_node |-> node_id, sent |-> <<>>]
        ELSE [crdt        |-> apply_delete(s, id_map[index]).crdt,
              cursor_node |-> IF index >= 2 THEN id_map[index - 1] ELSE HEAD,
              sent        |-> <<[type |-> "CRDT_DELETE", node_id |-> id_map[index]]>>]

RECURSIVE delete_each(_, _, _)
delete_each(s, node_ids, sent) ==
    IF node_ids = <<>> THEN [crdt |-> s, sent |-> sent]
    ELSE delete_each(apply_delete(s, Head(node_ids)).crdt, Tail(node_ids),
                     Append(sent, [type |-> "CRDT_DELETE", node_id |-> Head(node_ids)]))

\* _broadcast_delete_range over the positions start..end-1 (0-based).
broadcast_delete_range(s, node_id, start, end) ==
    LET id_map == visible_id_map(s)
    IN  IF start < 0 \/ end > Len(id_map)
        THEN [crdt |-> s, cursor_node |-> node_id, sent |-> <<>>]
        ELSE LET d == delete_each(s, SubSeq(id_map, start + 1, end), <<>>)
             IN  [crdt        |-> d.crdt,
                  cursor_node |-> IF start >= 1 THEN id_map[start] ELSE HEAD,
                  sent        |-> d.sent]

\* _send_to_peers, for each op of a sequence: the datagrams produced.
send_to_peers(peer_ids, ops) ==
    {[to |-> p, msg |-> ops[i]] : p \in peer_ids, i \in 1..Len(ops)}

\* One pass of the for loop of _flush_pending_ops.
RECURSIVE flush_pass(_, _, _, _)
flush_pass(s, ops, remaining, made_progress) ==
    IF ops = <<>>
    THEN [crdt |-> s, remaining |-> remaining, made_progress |-> made_progress]
    ELSE LET op == Head(ops)
             a  == IF op[1] = "insert" THEN apply_insert(s, op[2], op[3], op[4])
                   ELSE apply_delete(s, op[2])
         IN  IF a.ok THEN flush_pass(a.crdt, Tail(ops), remaining, TRUE)
             ELSE flush_pass(s, Tail(ops), Append(remaining, op), made_progress)

\* Mutant of flush_loop: one pass only, not repeated after progress.
flush_once(s, pending) ==
    LET p == flush_pass(s, pending, <<>>, FALSE)
    IN  [crdt |-> p.crdt, pending_ops |-> p.remaining]

\* The while loop of _flush_pending_ops.
RECURSIVE flush_loop(_, _)
flush_loop(s, pending) ==
    LET p == flush_pass(s, pending, <<>>, FALSE)
    IN  IF p.made_progress THEN flush_loop(p.crdt, p.remaining)
        ELSE [crdt |-> p.crdt, pending_ops |-> p.remaining]

\* What the for loop of one pass returns for each op of the buffer, in order:
\* the value of apply_insert / apply_delete on the store as the pass left it.
RECURSIVE pass_outcomes(_, _)
pass_outcomes(s, ops) ==
    IF ops = <<>> THEN <<>>
    ELSE LET op == Head(ops)
             a  == IF op[1] = "insert" THEN apply_insert(s, op[2], op[3], op[4])
                   ELSE apply_delete(s, op[2])
         IN  <<a.ok>> \o pass_outcomes(IF a.ok THEN a.crdt ELSE s, Tail(ops))

\* The passes the while loop of _flush_pending_ops makes, in order: the buffer
\* and store each pass starts from, and what it leaves.
RECURSIVE flush_loop_passes(_, _)
flush_loop_passes(s, pending) ==
    LET p == flush_pass(s, pending, <<>>, FALSE)
    IN  <<[ops |-> pending, store |-> s, remaining |-> p.remaining,
           made_progress |-> p.made_progress]>>
        \o (IF p.made_progress THEN flush_loop_passes(p.crdt, p.remaining)
            ELSE <<>>)

\* Mutant of flush_passes: the passes of a loop that runs one pass only.
flush_single_pass(s, pending) ==
    IF pending = <<>> THEN <<>>
    ELSE <<flush_loop_passes(s, pending)[1]>>

\* _flush_pending_ops: the passes made (none when the buffer is empty).
flush_passes(s, pending) ==
    IF pending = <<>> THEN <<>>
    ELSE flush_loop_passes(s, pending)

\* Mutant of flush_pending_ops: the buffer is never retried.
flush_nothing(s, pending) == [crdt |-> s, pending_ops |-> pending]

\* _flush_pending_ops: store and buffer afterwards.
flush_pending_ops(s, pending) ==
    IF pending = <<>> THEN [crdt |-> s, pending_ops |-> pending]
    ELSE flush_loop(s, pending)

\* --------------------------------------------------- the state machine
\* The history of a step that handled no CRDT_INSERT.
NoStep == [flushed |-> 0, shifted |-> 0, cleared |-> 0, left |-> "None",
           pasted |-> 0, passes |-> <<>>]

\* A session of all Clients on an empty document: every peer map is complete
\* (the state once each replica has joined and loaded the empty snapshot).
Init ==
    /\ crdt = [r \in Clients |-> RgaCrdt]
    /\ crdt_counter = [r \in Clients |-> 0]
    /\ pending_ops = [r \in Clients |-> <<>>]
    /\ cursor_node = [r \in Clients |-> HEAD]
    /\ text = [r \in Clients |-> <<>>]
    /\ caret = [r \in Clients |-> 0]
    /\ peers = [r \in Clients |-> Clients \ {r}]
    /\ net = {}
    /\ handled = {}
    /\ issued = [r \in Clients |-> <<>>]
    /\ nops = 0
    /\ step = NoStep
    /\ rga = [x \in {1, 2} |-> RgaCrdt]
    /\ opset = {}
    /\ applied = [x \in {1, 2} |-> {}]
    /\ ret = <<>>
    /\ hashseed = [r \in Clients |-> 1]
    /\ nchecks = 0
    /\ seen_invites = [r \in Clients |-> {}]
    /\ asking = [r \in Clients |-> <<>>]
    /\ invites = 0
    /\ prompted = [r \in Clients |-> {}]
    /\ leaves = 0
    /\ notices = [r \in Clients |-> {}]
    /\ recv_data = [r \in Clients |-> <<>>]
    /\ queue = [r \in Clients |-> {}]

\* The non-empty strings of at most n characters typed at r.
Texts(r, n) == UNION {[1..k -> Typed[r]] : k \in 1..n}

\* The ids of a sequence of CRDT_INSERT ops.
sent_ids(sent) == [i \in 1..Len(sent) |-> sent[i].node_id]

\* The tail shared by every editing branch of _on_key: the edit b made from
\* the anchor of the GUI position, then _sync_text_from_crdt and _move_cursor.
local_edit(r, b, new_counter, new_ids) ==
    LET v == sync_text_from_crdt(b.crdt, b.cursor_node, text[r], caret[r])
    IN  /\ crdt' = [crdt EXCEPT ![r] = b.crdt]
        /\ crdt_counter' = [crdt_counter EXCEPT ![r] = new_counter]
        /\ cursor_node' = [cursor_node EXCEPT ![r] = b.cursor_node]
        /\ text' = [text EXCEPT ![r] = v.text]
        /\ caret' = [caret EXCEPT ![r] =
               move_cursor(get_cursor_position_from_node(b.crdt, b.cursor_node), v.text)]
        /\ net' = net \cup send_to_peers(peers[r], b.sent)
        /\ issued' = [issued EXCEPT ![r] = issued[r] \o new_ids]
        /\ nops' = nops + Len(b.sent)
        /\ step' = [NoStep EXCEPT !.pasted = Len(new_ids)]
        /\ UNCHANGED <<pending_ops, peers, handled, store_vars, io_vars, ae_vars, mesh_vars>>

\* _on_key, Ctrl+V with clipboard text txt.
KeyPaste(r, txt) ==
    /\ nops + Len(txt) <= MaxOps
    /\ LET node_id == update_cursor_node_from_position(crdt[r], caret[r])
           b == broadcast_insert(crdt[r], crdt_counter[r], r, node_id, txt)
       IN  local_edit(r, b, b.counter, sent_ids(b.sent))

\* _on_key, Return or a printable character ch.
KeyChar(r, ch) ==
    /\ nops < MaxOps
    /\ LET node_id == update_cursor_node_from_position(crdt[r], caret[r])
           b == broadcast_insert(crdt[r], crdt_counter[r], r, node_id, <<ch>>)
       IN  local_edit(r, b, b.counter, sent_ids(b.sent))

\* _on_key, Backspace without a selection, left of which there is a character.
KeyBackspace(r) ==
    /\ nops < MaxOps
    /\ caret[r] > 0
    /\ LET node_id == update_cursor_node_from_position(crdt[r], caret[r])
           b == broadcast_delete(crdt[r], node_id, caret[r])
       IN  local_edit(r, b, crdt_counter[r], <<>>)

\* _on_key, Delete without a selection, right of which there is a character.
KeyDelete(r) ==
    /\ nops < MaxOps
    /\ caret[r] < Len(text[r])
    /\ LET node_id == update_cursor_node_from_position(crdt[r], caret[r])
           b == broadcast_delete(crdt[r], node_id, caret[r] + 1)
       IN  local_edit(r, b, crdt_counter[r], <<>>)

\* _on_key, Backspace or Delete with the selection start..end; the text
\* cursor is at either end of the selection.
KeyDeleteSelection(r, start, end) ==
    /\ nops + (end - start) <= MaxOps
    /\ caret[r] \in {start, end}
    /\ LET node_id == update_cursor_node_from_position(crdt[r], caret[r])
           b == broadcast_delete_range(crdt[r], node_id, start, end)
       IN  local_edit(r, b, crdt_counter[r], <<>>)

\* A click or a navigation key moves the text cursor to pos:
\* _on_cursor_changed, or the last two lines of _on_key.
MoveCaret(r, pos) ==
    /\ pos # caret[r]
    /\ caret' = [caret EXCEPT ![r] = pos]
    /\ cursor_node' = [cursor_node EXCEPT ![r] =
                           update_cursor_node_from_position(crdt[r], pos)]
    /\ step' = NoStep
    /\ UNCHANGED <<crdt, crdt_counter, pending_ops, text, peers, net, handled,
                   issued, nops, store_vars, io_vars, ae_vars, mesh_vars>>

\* The anchor is HEAD or a visible node of s.
anchored(s, node_id) ==
    node_id = HEAD \/ first_index(visible_id_map(s), node_id) # 0

\* msg.get("from_id")
from_id(msg) == IF "from_id" \in DOMAIN msg THEN msg.from_id ELSE "None"

\* _handle_message for a CRDT_INSERT datagram d: _apply_remote_insert.
RecvCrdtInsert(d) ==
    LET r   == d.to
        msg == d.msg
        counter == update_lamport_clock(crdt_counter[r], msg.node_id[1])
        a   == apply_insert(crdt[r], msg.after, msg.node_id, msg.char)
        f   == flush_pending_ops(a.crdt, pending_ops[r])
        v   == sync_text_from_crdt(f.crdt, cursor_node[r], text[r], caret[r])
    IN  /\ d \in net
        /\ msg.type = "CRDT_INSERT"
        /\ from_id(msg) # r
        /\ ~a.ok => Len(pending_ops[r]) < MaxPending
        /\ crdt_counter' = [crdt_counter EXCEPT ![r] = counter]
        /\ IF a.ok
           THEN /\ crdt' = [crdt EXCEPT ![r] = f.crdt]
                /\ pending_ops' = [pending_ops EXCEPT ![r] = f.pending_ops]
                /\ text' = [text EXCEPT ![r] = v.text]
                /\ caret' = [caret EXCEPT ![r] = v.caret]
           ELSE /\ pending_ops' = [pending_ops EXCEPT ![r] =
                       Append(pending_ops[r],
                              <<"insert", msg.after, msg.node_id, msg.char>>)]
                /\ UNCHANGED <<crdt, text, caret>>
        /\ handled' = handled \cup {d}
        /\ step' = [flushed |-> IF a.ok THEN Len(pending_ops[r]) - Len(f.pending_ops)
                                 ELSE 0,
                    shifted |-> IF a.ok /\ anchored(crdt[r], cursor_node[r])
                                THEN v.caret - caret[r] ELSE 0,
                    cleared |-> 0,
                    left |-> "None",
                    pasted |-> 0,
                    passes |-> IF a.ok THEN flush_passes(a.crdt, pending_ops[r])
                               ELSE <<>>]
        /\ UNCHANGED <<cursor_node, peers, net, issued, nops, store_vars, io_vars, ae_vars, mesh_vars>>

\* _handle_message for a CRDT_DELETE datagram d: _apply_remote_delete.
RecvCrdtDelete(d) ==
    LET r   == d.to
        msg == d.msg
        a   == apply_delete(crdt[r], msg.node_id)
        v   == sync_text_from_crdt(a.crdt, cursor_node[r], text[r], caret[r])
    IN  /\ d \in net
        /\ msg.type = "CRDT_DELETE"
        /\ from_id(msg) # r
        /\ ~a.ok => Len(pending_ops[r]) < MaxPending
        /\ IF a.ok
           THEN /\ crdt' = [crdt EXCEPT ![r] = a.crdt]
                /\ text' = [text EXCEPT ![r] = v.text]
                /\ caret' = [caret EXCEPT ![r] = v.caret]
                /\ UNCHANGED pending_ops
           ELSE /\ pending_ops' = [pending_ops EXCEPT ![r] =
                       Append(pending_ops[r], <<"delete", msg.node_id>>)]
                /\ UNCHANGED <<crdt, text, caret>>
        /\ handled' = handled \cup {d}
        /\ step' = NoStep
        /\ UNCHANGED <<crdt_counter, cursor_node, peers, net, issued, nops, store_vars, io_vars, ae_vars, mesh_vars>>

\* -------------------------------------------------------- anti-entropy
\* A datagram of the anti-entropy protocol is handled once, after any delay,
\* and is then gone from net; a tick of the timer counts as one of the MaxOps
\* steps of the users.
\* The hash seeds of the processes: PYTHONHASHSEED is drawn per process, so
\* two replicas have the same seed or different ones.
HashSeeds == {[r \in Clients |-> 1], [r \in Clients |-> StrRank[r]]}

InitAE ==
    /\ crdt = [r \in Clients |-> RgaCrdt]
    /\ crdt_counter = [r \in Clients |-> 0]
    /\ pending_ops = [r \in Clients |-> <<>>]
    /\ cursor_node = [r \in Clients |-> HEAD]
    /\ text = [r \in Clients |-> <<>>]
    /\ caret = [r \in Clients |-> 0]
    /\ peers = [r \in Clients |-> Clients \ {r}]
    /\ net = {}
    /\ handled = {}
    /\ issued = [r \in Clients |-> <<>>]
    /\ nops = 0
    /\ step = NoStep
    /\ rga = [x \in {1, 2} |-> RgaCrdt]
    /\ opset = {}
    /\ applied = [x \in {1, 2} |-> {}]
    /\ ret = <<>>
    /\ hashseed \in HashSeeds
    /\ nchecks = 0
    /\ seen_invites = [r \in Clients |-> {}]
    /\ asking = [r \in Clients |-> <<>>]
    /\ invites = 0
    /\ prompted = [r \in Clients |-> {}]
    /\ leaves = 0
    /\ notices = [r \in Clients |-> {}]
    /\ recv_data = [r \in Clients |-> <<>>]
    /\ queue = [r \in Clients |-> {}]

\* len(self.crdt.nodes)
node_count(s) == Cardinality(DOMAIN s.nodes)

\* _broadcast_state_check: the datagrams r sends.
broadcast_state_check(r) ==
    send_to_peers(peers[r],
                  <<[type       |-> "STATE_CHECK",
                     from_id    |-> r,
                     state_hash |-> state_hash(crdt[r], hashseed[r]),
                     node_count |-> node_count(crdt[r])]>>)

\* A tick of the anti-entropy timer at r: _broadcast_state_check.
BroadcastStateCheck(r) ==
    /\ nchecks < MaxChecks
    /\ nops < MaxOps
    /\ peers[r] # {}
    /\ nops' = nops + 1
    /\ net' = net \cup broadcast_state_check(r)
    /\ nchecks' = nchecks + 1
    /\ step' = NoStep
    /\ UNCHANGED <<crdt, crdt_counter, pending_ops, cursor_node, text, caret,
                   peers, handled, issued, store_vars, io_vars, hashseed,
                   mesh_vars>>

\* _send_snapshot_to_peer: the datagrams r sends for peer_id.
send_snapshot_to_peer(r, peer_id) ==
    IF peer_id \notin peers[r] THEN {}
    ELSE {[to  |-> peer_id,
           msg |-> [type       |-> "SNAPSHOT",
                    from_id    |-> r,
                    crdt_state |-> to_dict(crdt[r])]]}

\* _request_snapshot: the datagrams r sends for peer_id.
request_snapshot(r, peer_id) ==
    IF peer_id \notin peers[r] THEN {}
    ELSE {[to |-> peer_id, msg |-> [type |-> "REQUEST_SNAPSHOT", from_id |-> r]]}

\* Mutant of _handle_state_check: on equal node counts the replica sends its
\* snapshot whatever the client ids are.
handle_state_check_eager(r, msg) ==
    LET sender_id == msg.from_id
        my_hash   == state_hash(crdt[r], hashseed[r])
        my_count  == node_count(crdt[r])
    IN  IF sender_id \notin peers[r] THEN {}
        ELSE IF msg.state_hash = my_hash THEN {}
        ELSE IF my_count >= msg.node_count THEN send_snapshot_to_peer(r, sender_id)
        ELSE request_snapshot(r, sender_id)

\* Mutant of _handle_state_check: on equal node counts the replica waits
\* whatever the client ids are.
handle_state_check_waiting(r, msg) ==
    LET sender_id == msg.from_id
        my_hash   == state_hash(crdt[r], hashseed[r])
        my_count  == node_count(crdt[r])
    IN  IF sender_id \notin peers[r] THEN {}
        ELSE IF msg.state_hash = my_hash THEN {}
        ELSE IF my_count > msg.node_count THEN send_snapshot_to_peer(r, sender_id)
        ELSE IF my_count < msg.node_count THEN request_snapshot(r, sender_id)
        ELSE {}

\* _handle_state_check: the datagrams r sends on the STATE_CHECK msg.
handle_state_check(r, msg) ==
    LET sender_id == msg.from_id
        my_hash   == state_hash(crdt[r], hashseed[r])
        my_count  == node_count(crdt[r])
    IN  IF sender_id \notin peers[r] THEN {}
        ELSE IF msg.state_hash = my_hash THEN {}
        ELSE IF my_count > msg.node_count THEN send_snapshot_to_peer(r, sender_id)
        ELSE IF my_count < msg.node_count THEN request_snapshot(r, sender_id)
        ELSE IF StrRank[r] > StrRank[sender_id] THEN send_snapshot_to_peer(r, sender_id)
        ELSE {}

\* _handle_message for a STATE_CHECK datagram d.
RecvStateCheck(d) ==
    /\ d \in net
    /\ d.msg.type = "STATE_CHECK"
    /\ from_id(d.msg) # d.to
    /\ net' = (net \ {d}) \cup handle_state_check(d.to, d.msg)
    /\ handled' = handled \cup {d}
    /\ step' = NoStep
    /\ UNCHANGED <<crdt, crdt_counter, pending_ops, cursor_node, text, caret,
                   peers, issued, nops, store_vars, io_vars, ae_vars, mesh_vars>>

\* _handle_message for a REQUEST_SNAPSHOT datagram d.
RecvRequestSnapshot(d) ==
    /\ d \in net
    /\ d.msg.type = "REQUEST_SNAPSHOT"
    /\ from_id(d.msg) # d.to
    /\ net' = (net \ {d}) \cup send_snapshot_to_peer(d.to, d.msg.from_id)
    /\ handled' = handled \cup {d}
    /\ step' = NoStep
    /\ UNCHANGED <<crdt, crdt_counter, pending_ops, cursor_node, text, caret,
                   peers, issued, nops, store_vars, io_vars, ae_vars, mesh_vars>>

\* Mutant of max_counter: the node ids of the snapshot are not looked at.
max_counter_own(ids, acc) == acc

\* The loop of _apply_snapshot over the node ids: the greatest counter.
RECURSIVE max_counter(_, _)
max_counter(ids, acc) ==
    IF ids = <<>> THEN acc
    ELSE max_counter(Tail(ids), IF Head(ids)[1] > acc THEN Head(ids)[1] ELSE acc)

\* _handle_message for a SNAPSHOT datagram d: _apply_snapshot.
RecvSnapshot(d) ==
    LET r   == d.to
        s   == from_dict(d.msg.crdt_state)
        rendered == render(s)
        node_id  == IF cursor_node[r] # HEAD /\ cursor_node[r] \notin DOMAIN s.nodes
                    THEN HEAD ELSE cursor_node[r]
    IN  /\ d \in net
        /\ d.msg.type = "SNAPSHOT"
        /\ from_id(d.msg) # r
        /\ net' = net \ {d}
        /\ crdt' = [crdt EXCEPT ![r] = s]
        /\ crdt_counter' = [crdt_counter EXCEPT ![r] =
               update_lamport_clock(crdt_counter[r],
                                    max_counter(s.order, crdt_counter[r]))]
        /\ text' = [text EXCEPT ![r] = rendered]
        /\ pending_ops' = [pending_ops EXCEPT ![r] = <<>>]
        /\ cursor_node' = [cursor_node EXCEPT ![r] = node_id]
        /\ caret' = [caret EXCEPT ![r] =
               Min(get_cursor_position_from_node(s, node_id), Len(rendered))]
        /\ handled' = handled \cup {d}
        /\ step' = [flushed |-> 0, shifted |-> 0, cleared |-> Len(pending_ops[r]),
                    left |-> "None", pasted |-> 0, passes |-> <<>>]
        /\ UNCHANGED <<peers, issued, nops, store_vars, io_vars, ae_vars, mesh_vars>>

\* ------------------------------------------ anti-entropy in quiescence
\* The replicas after the local edits have stopped: each replica r has typed
\* nothing, its character, or its character and then deleted it, and has
\* handled some of the datagrams of its peer; no datagram of these edits is
\* in flight any more (the others were dropped on the way).
TheChar(r) == CHOOSE ch \in Typed[r] : TRUE

\* What a replica can have handled of a peer that made k edits: nothing, the
\* CRDT_INSERT, the CRDT_INSERT and the CRDT_DELETE, or the CRDT_DELETE alone.
Handled(k) ==
    CASE k = 0 -> {"none"}
      [] k = 1 -> {"none", "insert"}
      [] k = 2 -> {"none", "insert", "both", "delete"}

\* The store of r after its own k edits and the handling h of the edits of p.
edited(r, k, p, h) ==
    LET s1 == IF k >= 1 THEN apply_insert(RgaCrdt, HEAD, <<1, r>>, <<TheChar(r)>>).crdt
              ELSE RgaCrdt
        s2 == IF k = 2 THEN apply_delete(s1, <<1, r>>).crdt ELSE s1
        s3 == IF h \in {"insert", "both"}
              THEN apply_insert(s2, HEAD, <<1, p>>, <<TheChar(p)>>).crdt ELSE s2
    IN  IF h = "both" THEN apply_delete(s3, <<1, p>>).crdt ELSE s3

InitRound ==
    \E k \in [Clients -> 0..2] :
      \E h \in [Clients -> {"none", "insert", "both", "delete"}] :
        /\ \A r \in Clients : \A p \in Clients \ {r} : h[r] \in Handled(k[p])
        /\ crdt = [r \in Clients |->
                     edited(r, k[r], CHOOSE p \in Clients : p # r, h[r])]
        /\ crdt_counter = [r \in Clients |->
                     IF k[r] >= 1 \/ h[r] \in {"insert", "both"} THEN 1 ELSE 0]
        /\ pending_ops = [r \in Clients |->
                     IF h[r] = "delete"
                     THEN <<<<"delete", <<1, CHOOSE p \in Clients : p # r>>>>>>
                     ELSE <<>>]
        /\ issued = [r \in Clients |-> IF k[r] >= 1 THEN <<<<1, r>>>> ELSE <<>>]
        /\ nops = k["A"] + k["B"]
    /\ text = [r \in Clients |-> render(crdt[r])]
    /\ cursor_node = [r \in Clients |-> HEAD]
    /\ caret = [r \in Clients |-> 0]
    /\ peers = [r \in Clients |-> Clients \ {r}]
    /\ net = {}
    /\ handled = {}
    /\ step = NoStep
    /\ rga = [x \in {1, 2} |-> RgaCrdt]
    /\ opset = {}
    /\ applied = [x \in {1, 2} |-> {}]
    /\ ret = <<>>
    /\ hashseed \in HashSeeds
    /\ nchecks = 0
    /\ seen_invites = [r \in Clients |-> {}]
    /\ asking = [r \in Clients |-> <<>>]
    /\ invites = 0
    /\ prompted = [r \in Clients |-> {}]
    /\ leaves = 0
    /\ notices = [r \in Clients |-> {}]
    /\ recv_data = [r \in Clients |-> <<>>]
    /\ queue = [r \in Clients |-> {}]

\* A tick of the anti-entropy timer at r, which fires every three seconds
\* for as long as the editor runs: _broadcast_state_check.
TimerTick(r) ==
    /\ peers[r] # {}
    /\ net' = net \cup broadcast_state_check(r)
    /\ step' = NoStep
    /\ UNCHANGED <<crdt, crdt_counter, pending_ops, cursor_node, text, caret,
                   peers, handled, issued, nops, store_vars, io_vars, ae_vars, mesh_vars>>

NextRound ==
    \/ \E r \in Clients : TimerTick(r)
    \/ \E d \in net : RecvStateCheck(d)
    \/ \E d \in net : RecvRequestSnapshot(d)
    \/ \E d \in net : RecvSnapshot(d)

\* ------------------------------------------------- session membership
\* An INVITE goes out on the broadcast address of every interface of the
\* sender, so a replica can get it more than once: it stays in net. Every
\* other membership datagram leaves net when its addressee handles it; one
\* that is never handled was lost on the way.
\* The editors on the local network: those of Clients and one more.
Members == Clients \cup {"C"}

\* The document of every replica, which the membership steps leave alone.
doc_vars == <<crdt, crdt_counter, pending_ops, cursor_node, text, caret,
              issued, nops>>

\* The sessions the run starts from: none, or one that A and B have formed.
Sessions == {{}, Clients}

\* Editors with empty documents, no invitation sent and no datagram in
\* flight; the members of the session, if any, have each other as peers.
InitMesh ==
    /\ crdt = [r \in Members |-> RgaCrdt]
    /\ crdt_counter = [r \in Members |-> 0]
    /\ pending_ops = [r \in Members |-> <<>>]
    /\ cursor_node = [r \in Members |-> HEAD]
    /\ text = [r \in Members |-> <<>>]
    /\ caret = [r \in Members |-> 0]
    /\ \E g \in Sessions :
          peers = [r \in Members |-> IF r \in g THEN g \ {r} ELSE {}]
    /\ net = {}
    /\ handled = {}
    /\ issued = [r \in Members |-> <<>>]
    /\ nops = 0
    /\ step = NoStep
    /\ rga = [x \in {1, 2} |-> RgaCrdt]
    /\ opset = {}
    /\ applied = [x \in {1, 2} |-> {}]
    /\ ret = <<>>
    /\ hashseed = [r \in Members |-> 1]
    /\ nchecks = 0
    /\ seen_invites = [r \in Members |-> {}]
    /\ asking = [r \in Members |-> <<>>]
    /\ invites = 0
    /\ prompted = [r \in Members |-> {}]
    /\ leaves = 0
    /\ notices = [r \in Members |-> {}]
    /\ recv_data = [r \in Members |-> <<>>]
    /\ queue = [r \in Members |-> {}]

\* A question about an invitation or a "joined" notice is open at r. Both
\* are modal: datagrams and timers are handled while they are open, the menus
\* and keys of r's user are not. The question opens as soon as the event
\* loop runs (QTimer.singleShot(0, ask)). Several can be open at one replica;
\* the order of their closing is left open here.
modal(r) == asking[r] # <<>> \/ notices[r] # {}

\* share_file at r: a fresh invite id, and the INVITE broadcast on the local
\* network, which reaches every editor listening there, r's own included.
ShareFile(r) ==
    /\ ~modal(r)
    /\ invites < MaxInvites
    /\ invites' = invites + 1
    /\ net' = net \cup {[to  |-> p,
                         msg |-> [type      |-> "INVITE",
                                  invite_id |-> invites + 1,
                                  from_id   |-> r]] : p \in Members}
    /\ step' = NoStep
    /\ UNCHANGED <<doc_vars, peers, handled, seen_invites, asking, prompted,
                   leaves, notices, store_vars, io_vars, ae_vars>>

\* Mutant of _handle_invite: the seen-invite set is not looked at.
handle_invite_unseen(r, msg) ==
    IF from_id(msg) = r THEN FALSE
    ELSE IF from_id(msg) \in peers[r] THEN FALSE
    ELSE TRUE

\* _handle_invite at r, after the from_id test of _handle_message: whether
\* the question is put to the user.
handle_invite(r, msg) ==
    IF from_id(msg) = r THEN FALSE
    ELSE IF from_id(msg) \in peers[r] THEN FALSE
    ELSE IF msg.invite_id \in seen_invites[r] THEN FALSE
    ELSE TRUE

\* _handle_message for an INVITE datagram d: _handle_invite, which leaves
\* the question to the event loop (QTimer.singleShot).
RecvInvite(d) ==
    LET r == d.to
        put == from_id(d.msg) # r /\ handle_invite(r, d.msg)
    IN  /\ d \in net
        /\ d.msg.type = "INVITE"
        /\ put => Len(asking[r]) < MaxAsking
        /\ handled' = handled \cup {d}
        /\ IF put
           THEN /\ seen_invites' = [seen_invites EXCEPT ![r] = @ \cup {d.msg.invite_id}]
                /\ asking' = [asking EXCEPT ![r] = Append(@, d.msg)]
                /\ prompted' = [prompted EXCEPT ![r] = @ \cup {d.msg.invite_id}]
           ELSE UNCHANGED <<seen_invites, asking, prompted>>
        /\ step' = NoStep
        /\ UNCHANGED <<doc_vars, peers, net, invites, leaves, notices,
                       store_vars, io_vars, ae_vars>>

\* seq without its i-th element.
remove_at(seq, i) ==
    [k \in 1..(Len(seq) - 1) |-> IF k < i THEN seq[k] ELSE seq[k + 1]]

\* The callback ask() of _handle_invite at r for the i-th waiting INVITE:
\* the user answers (reply is FALSE for No and for a cancelled save); on Yes
\* the sender joins the peer map and gets an INVITE_ACCEPT.
Ask(r, i, reply) ==
    LET msg == asking[r][i]
    IN  /\ i \in DOMAIN asking[r]
        /\ asking' = [asking EXCEPT ![r] = remove_at(@, i)]
        /\ IF reply
           THEN /\ peers' = [peers EXCEPT ![r] = @ \cup {msg.from_id}]
                /\ net' = net \cup {[to  |-> msg.from_id,
                                     msg |-> [type    |-> "INVITE_ACCEPT",
                                              from_id |-> r]]}
           ELSE UNCHANGED <<peers, net>>
        /\ step' = NoStep
        /\ UNCHANGED <<doc_vars, handled, seen_invites, invites, prompted,
                       leaves, notices, store_vars, io_vars, ae_vars>>

\* _send_peer_announce: the datagram telling target about peer_id.
send_peer_announce(target, peer_id) ==
    [to |-> target, msg |-> [type |-> "PEER_ANNOUNCE", peer_id |-> peer_id]]

\* _handle_message for an INVITE_ACCEPT datagram d: _handle_invite_accept
\* up to its QMessageBox, which announces the newcomer to every peer and
\* every peer to the newcomer, adds the newcomer and opens the notice that
\* it has joined. The notice runs the event loop, so other datagrams are
\* handled while it is open.
RecvInviteAccept(d) ==
    LET r == d.to
        new_peer_id == d.msg.from_id
    IN  /\ d \in net
        /\ d.msg.type = "INVITE_ACCEPT"
        /\ handled' = handled \cup {d}
        /\ IF from_id(d.msg) = r
           THEN net' = net \ {d} /\ UNCHANGED <<peers, notices>>
           ELSE /\ peers' = [peers EXCEPT ![r] = @ \cup {new_peer_id}]
                /\ net' = (net \ {d})
                     \cup {send_peer_announce(x, new_peer_id) : x \in peers[r]}
                     \cup {send_peer_announce(new_peer_id, x) : x \in peers[r]}
                /\ notices' = [notices EXCEPT ![r] = @ \cup {new_peer_id}]
        /\ step' = NoStep
        /\ UNCHANGED <<doc_vars, seen_invites, asking, invites, prompted, leaves,
                       store_vars, io_vars, ae_vars>>

\* The rest of _handle_invite_accept at r for the newcomer n, once the user
\* has closed the notice: _send_snapshot_to_peer.
CloseNotice(r, n) ==
    /\ n \in notices[r]
    /\ notices' = [notices EXCEPT ![r] = @ \ {n}]
    /\ net' = net \cup send_snapshot_to_peer(r, n)
    /\ step' = NoStep
    /\ UNCHANGED <<doc_vars, peers, handled, seen_invites, asking, invites,
                   prompted, leaves, store_vars, io_vars, ae_vars>>

\* Mutant of _handle_peer_announce: the announced id is not compared with
\* the client id.
handle_peer_announce_any(r, msg) ==
    IF msg.peer_id \in peers[r] THEN peers[r]
    ELSE peers[r] \cup {msg.peer_id}

\* _handle_peer_announce: the keys of r's peer map after it.
handle_peer_announce(r, msg) ==
    IF msg.peer_id = r THEN peers[r]
    ELSE IF msg.peer_id \in peers[r] THEN peers[r]
    ELSE peers[r] \cup {msg.peer_id}

\* _handle_message for a PEER_ANNOUNCE datagram d, which has no from_id.
RecvPeerAnnounce(d) ==
    /\ d \in net
    /\ d.msg.type = "PEER_ANNOUNCE"
    /\ handled' = handled \cup {d}
    /\ peers' = [peers EXCEPT ![d.to] =
                   IF from_id(d.msg) = d.to THEN @
                   ELSE handle_peer_announce(d.to, d.msg)]
    /\ step' = NoStep
    /\ net' = net \ {d}
    /\ UNCHANGED <<doc_vars, mesh_vars, store_vars, io_vars, ae_vars>>

\* leave_session at r, which returns at once when the peer map is empty.
LeaveSession(r) ==
    /\ ~modal(r)
    /\ IF peers[r] = {}
       THEN UNCHANGED <<net, peers, seen_invites, leaves>>
       ELSE /\ leaves < MaxLeaves
            /\ leaves' = leaves + 1
            /\ net' = net \cup send_to_peers(peers[r],
                                 <<[type |-> "PEER_LEAVE", from_id |-> r]>>)
            /\ peers' = [peers EXCEPT ![r] = {}]
            /\ seen_invites' = [seen_invites EXCEPT ![r] = {}]
    /\ step' = [NoStep EXCEPT !.left = r]
    /\ UNCHANGED <<doc_vars, handled, asking, invites, prompted, notices,
                   store_vars, io_vars, ae_vars>>

\* _handle_message for a PEER_LEAVE datagram d: _handle_peer_leave.
RecvPeerLeave(d) ==
    /\ d \in net
    /\ d.msg.type = "PEER_LEAVE"
    /\ handled' = handled \cup {d}
    /\ peers' = [peers EXCEPT ![d.to] =
                   IF from_id(d.msg) = d.to THEN @ ELSE @ \ {d.msg.from_id}]
    /\ step' = NoStep
    /\ net' = net \ {d}
    /\ UNCHANGED <<doc_vars, mesh_vars, store_vars, io_vars, ae_vars>>

NextMesh ==
    \/ \E r \in Members : ShareFile(r)
    \/ \E d \in net : RecvInvite(d)
    \/ \E r \in Members : \E i \in DOMAIN asking[r] : \E reply \in BOOLEAN :
          Ask(r, i, reply)
    \/ \E d \in net : RecvInviteAccept(d)
    \/ \E r \in Members : \E n \in notices[r] : CloseNotice(r, n)
    \/ \E d \in net : RecvPeerAnnounce(d)
    \/ \E r \in Members : LeaveSession(r)
    \/ \E d \in net : RecvPeerLeave(d)
    \/ \E d \in net : RecvSnapshot(d)

\* ------------------------------------------- the RGA store driven alone
\* The variables of the session, which the store-level steps leave alone.
session_vars == <<crdt, crdt_counter, pending_ops, cursor_node, text, caret,
                  peers, net, handled, issued, nops, step, hashseed, nchecks,
                  seen_invites, asking, invites, prompted, leaves, notices>>

\* The OpIds used as node ids when the store is driven alone.
StoreIds == {<<1, "A">>, <<1, "B">>, <<2, "A">>}

\* The character of the node with id i.
CharOf(i) == IF i[2] = "A" THEN <<"a">> ELSE <<"b">>

\* A fixed set of operations: one insert per id of StoreIds, after HEAD or
\* after another id, and the delete of every id.
OpSets ==
    {{[op |-> "insert", after |-> f[i], node_id |-> i, char |-> CharOf(i)] : i \in StoreIds}
         \cup {[op |-> "delete", node_id |-> i] : i \in StoreIds}
       : f \in {g \in [StoreIds -> StoreIds \cup {HEAD}] : \A i \in StoreIds : g[i] # i}}

\* Two stores, to which the operations of one set are applied in any orders.
InitOrder ==
    /\ crdt = [r \in Clients |-> RgaCrdt]
    /\ crdt_counter = [r \in Clients |-> 0]
    /\ pending_ops = [r \in Clients |-> <<>>]
    /\ cursor_node = [r \in Clients |-> HEAD]
    /\ text = [r \in Clients |-> <<>>]
    /\ caret = [r \in Clients |-> 0]
    /\ peers = [r \in Clients |-> Clients \ {r}]
    /\ net = {}
    /\ handled = {}
    /\ issued = [r \in Clients |-> <<>>]
    /\ nops = 0
    /\ step = NoStep
    /\ rga = [x \in {1, 2} |-> RgaCrdt]
    /\ opset \in OpSets
    /\ applied = [x \in {1, 2} |-> {}]
    /\ ret = <<>>
    /\ hashseed = [r \in Clients |-> 1]
    /\ nchecks = 0
    /\ seen_invites = [r \in Clients |-> {}]
    /\ asking = [r \in Clients |-> <<>>]
    /\ invites = 0
    /\ prompted = [r \in Clients |-> {}]
    /\ leaves = 0
    /\ notices = [r \in Clients |-> {}]
    /\ recv_data = [r \in Clients |-> <<>>]
    /\ queue = [r \in Clients |-> {}]

\* apply_insert of an operation of opset on rga[x], its `after` being present.
ApplyInsertOp(x, o) ==
    /\ o \in opset
    /\ o.op = "insert"
    /\ has(rga[x], o.after)
    /\ LET a == apply_insert(rga[x], o.after, o.node_id, o.char)
       IN  /\ rga' = [rga EXCEPT ![x] = a.crdt]
           /\ ret' = <<a.ok>>
    /\ applied' = [applied EXCEPT ![x] = applied[x] \cup {o}]
    /\ UNCHANGED <<opset, session_vars, io_vars>>

\* apply_delete of an operation of opset on rga[x], its node being present.
ApplyDeleteOp(x, o) ==
    /\ o \in opset
    /\ o.op = "delete"
    /\ has(rga[x], o.node_id)
    /\ LET a == apply_delete(rga[x], o.node_id)
       IN  /\ rga' = [rga EXCEPT ![x] = a.crdt]
           /\ ret' = <<a.ok>>
    /\ applied' = [applied EXCEPT ![x] = applied[x] \cup {o}]
    /\ UNCHANGED <<opset, session_vars, io_vars>>

NextOrder ==
    \/ \E x \in {1, 2} : \E o \in opset : ApplyInsertOp(x, o)
    \/ \E x \in {1, 2} : \E o \in opset : ApplyDeleteOp(x, o)

\* apply_insert(after, node_id, txt) on rga[1], for any arguments.
CallInsert(after, node_id, txt) ==
    LET a == apply_insert(rga[1], after, node_id, txt)
    IN  /\ rga' = [rga EXCEPT ![1] = a.crdt]
        /\ ret' = <<a.ok>>
        /\ UNCHANGED <<opset, applied, session_vars, io_vars>>

\* apply_delete(node_id) on rga[1], for any argument.
CallDelete(node_id) ==
    LET a == apply_delete(rga[1], node_id)
    IN  /\ rga' = [rga EXCEPT ![1] = a.crdt]
        /\ ret' = <<a.ok>>
        /\ UNCHANGED <<opset, applied, session_vars, io_vars>>

NextCalls ==
    \/ \E after \in StoreIds \cup {HEAD} : \E node_id \in StoreIds \cup {HEAD} :
          \E txt \in {<<"a">>, <<"b">>} : CallInsert(after, node_id, txt)
    \/ \E node_id \in StoreIds \cup {HEAD} : CallDelete(node_id)

Next ==
    \/ \E r \in Clients : \E txt \in Texts(r, MaxPaste) : KeyPaste(r, txt)
    \/ \E r \in Clients : \E ch \in Typed[r] : KeyChar(r, ch)
    \/ \E r \in Clients : KeyBackspace(r)
    \/ \E r \in Clients : KeyDelete(r)
    \/ \E r \in Clients : \E start \in 0..Len(text[r]) :
          \E end \in (start + 1)..Len(text[r]) : KeyDeleteSelection(r, start, end)
    \/ \E r \in Clients : \E pos \in 0..Len(text[r]) : MoveCaret(r, pos)
    \/ \E d \in net : RecvCrdtInsert(d)
    \/ \E d \in net : RecvCrdtDelete(d)

\* ------------------------------------------------------ listen thread
\* get_shared_file starts one listen thread per editor. The datagrams of net
\* reach it in any order and any number of times; message_received is
\* connected to _handle_message of the window, which lives in the GUI thread,
\* so an emit from the listen thread posts the message to the GUI event loop.
\* One pass of the loop of listen, first half: recvfrom returns a datagram
\* for r, which is decompressed and decoded into the local msg.
Recvfrom(r) ==
    /\ recv_data[r] = <<>>
    /\ \E d \in net :
          /\ d.to = r
          /\ d \notin queue[r]
          /\ recv_data' = [recv_data EXCEPT ![r] = <<d>>]
    /\ step' = NoStep
    /\ UNCHANGED <<doc_vars, peers, net, handled, queue, store_vars, ae_vars,
                   mesh_vars>>

\* Mutant of Emit: the signal is connected directly, and the emit runs
\* _handle_message in the listen thread.
EmitDirect(r) ==
    /\ recv_data[r] # <<>>
    /\ \/ RecvCrdtInsert(recv_data[r][1])
       \/ RecvCrdtDelete(recv_data[r][1])

\* Second half of the pass: message_received.emit(msg, addr).
Emit(r) ==
    /\ recv_data[r] # <<>>
    /\ queue' = [queue EXCEPT ![r] = @ \cup {recv_data[r][1]}]
    /\ recv_data' = [recv_data EXCEPT ![r] = <<>>]
    /\ step' = NoStep
    /\ UNCHANGED <<doc_vars, peers, net, handled, store_vars, ae_vars,
                   mesh_vars>>

\* The steps of the listen threads.
Listen == \E r \in Clients : Recvfrom(r) \/ Emit(r)

\* The editors with their listen threads: the GUI thread of r handles the
\* keys of r's user and the messages posted to it.
NextThreads ==
    \/ \E r \in Clients : \E ch \in Typed[r] : KeyChar(r, ch)
    \/ \E r \in Clients : KeyBackspace(r)
    \/ \E r \in Clients : \E pos \in 0..Len(text[r]) : MoveCaret(r, pos)
    \/ \E r \in Clients : Recvfrom(r)
    \/ \E r \in Clients : Emit(r)
    \/ \E r \in Clients : \E d \in queue[r] : RecvCrdtInsert(d)
    \/ \E r \in Clients : \E d \in queue[r] : RecvCrdtDelete(d)

\* ------------------------------------------------------- CHUNK datagrams
\* concurrency.py has no MAX_DATAGRAM and sends no CHUNK: every message goes
\* out in one sendto. A CHUNK datagram can still reach an editor, from a peer
\* that fragments its messages; the chunks below are those of the CRDT_INSERT
\* datagrams of net, cut into NChunks slices.
NChunks == 2

\* Slice i of n of the encoded message of datagram d, as a CHUNK message.
chunk(d, i) ==
    [type    |-> "CHUNK",
     id      |-> d.msg.node_id,
     i       |-> i,
     n       |-> NChunks,
     data    |-> [msg |-> d.msg, slice |-> i],
     from_id |-> d.msg.node_id[2]]

\* _handle_message for slice i of datagram d: the message is not from the
\* replica itself and its type matches no branch.
RecvChunk(d, i) ==
    /\ d \in net
    /\ d.msg.type = "CRDT_INSERT"
    /\ chunk(d, i).from_id # d.to
    /\ handled' = handled \cup {[to |-> d.to, msg |-> chunk(d, i)]}
    /\ step' = NoStep
    /\ UNCHANGED <<doc_vars, peers, net, store_vars, io_vars, ae_vars, mesh_vars>>

NextChunks ==
    \/ \E r \in Clients : \E ch \in Typed[r] : KeyChar(r, ch)
    \/ \E d \in net : RecvCrdtInsert(d)
    \/ \E d \in net : \E i \in 0..(NChunks - 1) : RecvChunk(d, i)

\* ------------------------------------------------------------- claims
Range(seq) == {seq[i] : i \in 1..Len(seq)}

\* Every datagram sent so far has been handled by its addressee.
Quiescent == \A d \in net : d \in handled

\* The greatest counter among the CRDT_INSERTs replica r has handled, 0 if none.
Observed(r) ==
    LET cs == {d.msg.node_id[1] : d \in {h \in handled : h.to = r /\ h.msg.type = "CRDT_INSERT"}}
    IN  IF cs = {} THEN 0 ELSE CHOOSE c \in cs : \A e \in cs : e <= c

\* seq is strictly descending in the order of OpIds.
StrictlyDescending(seq) ==
    \A i \in 1..Len(seq) : \A j \in 1..Len(seq) : i < j => tuple_lt(seq[j], seq[i])

\* C1 (convergence): whenever every CRDT_INSERT and CRDT_DELETE sent so far
\* has been handled by the replica it was sent to, in whatever order and
\* however often, all replicas render the same text.
C1_Convergence ==
    Quiescent => \A r \in Clients : \A q \in Clients : render(crdt[r]) = render(crdt[q])

\* Both replicas edited, a character was deleted, the replicas applied the
\* inserts in different orders, and everything has been handled.
C1_Witness ==
    /\ Quiescent
    /\ \E r \in Clients : \E q \in Clients : crdt[r].order # crdt[q].order
    /\ nops = MaxOps
    /\ \A r \in Clients : issued[r] # <<>>
    /\ \E r \in Clients : \E n \in DOMAIN crdt[r].nodes : crdt[r].nodes[n].deleted
    /\ \E r \in Clients : render(crdt[r]) # <<>>

\* C4 (tie-break determinism): at every replica every children list is
\* strictly descending by OpId, and of two visible nodes with the same
\* `after` the one with the greater OpId is rendered first.
C4_TieBreak ==
    \A r \in Clients :
        /\ \A p \in DOMAIN crdt[r].children : StrictlyDescending(crdt[r].children[p])
        /\ LET m == visible_id_map(crdt[r])
           IN  \A i \in 1..Len(m) : \A j \in 1..Len(m) :
                   ( /\ crdt[r].nodes[m[i]].after = crdt[r].nodes[m[j]].after
                     /\ tuple_lt(m[j], m[i]) ) => i < j

\* Scenario S1: (1,"A") and (1,"B"), both after HEAD, on both replicas.
C4_Witness ==
    \A r \in Clients :
        /\ crdt[r].children[HEAD] = << <<1, "B">>, <<1, "A">> >>
        /\ render(crdt[r]) = <<"b", "a">>

\* C5 (causal readiness): no replica's pending buffer ever holds an insert
\* whose `after` is in its store or a delete whose target is in its store;
\* so the step that applies a missing dependency also applies every op
\* that was, directly or transitively, waiting for it.
C5_CausalReadiness ==
    \A r \in Clients : \A i \in 1..Len(pending_ops[r]) :
        LET op == pending_ops[r][i]
        IN  IF op[1] = "insert" THEN op[2] \notin DOMAIN crdt[r].nodes
            ELSE op[2] \notin DOMAIN crdt[r].nodes

\* A handled CRDT_INSERT let the flush apply two buffered ops, emptying the
\* buffers.
C5_Witness ==
    /\ step.flushed >= 2
    /\ \A r \in Clients : pending_ops[r] = <<>>

\* C6 (premature op): handling a CRDT_INSERT whose `after` is not in the
\* store, or a CRDT_DELETE whose target is not in the store, leaves the
\* store unchanged and appends exactly that op to the pending buffer.
C6_PrematureBuffered ==
    [][\A d \in net :
         /\ ( /\ d.msg.type = "CRDT_INSERT"
              /\ d.msg.after \notin DOMAIN crdt[d.to].nodes
              /\ RecvCrdtInsert(d) )
            => /\ crdt'[d.to] = crdt[d.to]
               /\ pending_ops'[d.to] =
                     Append(pending_ops[d.to],
                            <<"insert", d.msg.after, d.msg.node_id, d.msg.char>>)
         /\ ( /\ d.msg.type = "CRDT_DELETE"
              /\ d.msg.node_id \notin DOMAIN crdt[d.to].nodes
              /\ RecvCrdtDelete(d) )
            => /\ crdt'[d.to] = crdt[d.to]
               /\ pending_ops'[d.to] =
                     Append(pending_ops[d.to], <<"delete", d.msg.node_id>>)
      ]_vars

\* A replica with an untouched store buffers an insert and a delete.
C6_Witness ==
    \E r \in Clients :
        /\ crdt[r] = RgaCrdt
        /\ Len(pending_ops[r]) = 2
        /\ pending_ops[r][1][1] = "insert"
        /\ pending_ops[r][2][1] = "delete"

\* C9 (OpId uniqueness): the ids a replica generated have strictly
\* increasing counters and carry its client id, none is HEAD, and no id was
\* generated by two replicas.
C9_OpIdUnique ==
    /\ \A r \in Clients :
          /\ \A i \in 1..Len(issued[r]) :
                /\ issued[r][i] # HEAD
                /\ issued[r][i][2] = r
                /\ issued[r][i][1] >= 1
          /\ \A i \in 1..Len(issued[r]) : \A j \in 1..Len(issued[r]) :
                i < j => issued[r][i][1] < issued[r][j][1]
    /\ \A r \in Clients : \A q \in Clients :
          r # q => Range(issued[r]) \cap Range(issued[q]) = {}

\* Two replicas generated ids with the same counter, one of them two ids.
C9_Witness ==
    \E r \in Clients : \E q \in Clients :
        /\ r # q
        /\ Len(issued[r]) >= 2
        /\ issued[q] # <<>>
        /\ issued[r][1][1] = issued[q][1][1]

\* C10 (cursor stickiness): when a CRDT_INSERT is handled while the anchor
\* is HEAD or a visible node, the anchor stays, the caret moves right by
\* the number of characters that became visible left of it, and the anchor
\* is still the character left of the caret.
C10_CursorSticky ==
    [][\A d \in net :
         ( /\ d.msg.type = "CRDT_INSERT"
           /\ anchored(crdt[d.to], cursor_node[d.to])
           /\ RecvCrdtInsert(d) )
         => LET r    == d.to
                old  == visible_id_map(crdt[r])
                new  == visible_id_map(crdt'[r])
                pos  == get_cursor_position_from_node(crdt'[r], cursor_node[r])
                left == {j \in 1..Len(new) : new[j] \notin Range(old) /\ j <= pos}
            IN  /\ cursor_node'[r] = cursor_node[r]
                /\ pos = get_cursor_position_from_node(crdt[r], cursor_node[r])
                             + Cardinality(left)
                /\ caret'[r] = caret[r] + Cardinality(left)
                /\ caret'[r] = pos
                /\ cursor_node[r] # HEAD => new[caret'[r]] = cursor_node[r]
                /\ cursor_node[r] = HEAD => caret'[r] = 0
      ]_vars

\* One handled CRDT_INSERT made two characters visible left of the caret.
C10_Witness ==
    /\ step.shifted >= 2
    /\ \E r \in Clients : caret[r] >= 3 /\ cursor_node[r] # HEAD

\* C8: the Lamport counter of a replica never decreases, whatever local
\* edits, remote operations and snapshots it handles, and the next_op_id()
\* of a replica returns a counter greater than that of every CRDT_INSERT the
\* replica has handled, applied or buffered.
C8_LamportMonotonic ==
    /\ [][\A r \in Clients : crdt_counter'[r] >= crdt_counter[r]]_vars
    /\ [](\A r \in Clients : next_op_id(crdt_counter[r], r).id[1] > Observed(r))

\* A replica whose counter a snapshot raised has since handled a
\* CRDT_INSERT with a smaller counter.
C8_Witness ==
    \E r \in Clients :
        /\ \E d \in handled : d.to = r /\ d.msg.type = "SNAPSHOT"
        /\ Observed(r) > 0
        /\ crdt_counter[r] > Observed(r)
        /\ issued[r] = <<>>

\* The nodes of the store s.
nodes_of(s) == {s.nodes[i] : i \in DOMAIN s.nodes}

\* The nodes a crdt_state lists, as the set of their fields.
listed_nodes(data) ==
    {Node(tuple(n.id), tuple(n.after), n.text, n.deleted) : n \in Range(data.nodes)}

\* The greatest of a non-empty set of integers.
Max(S) == CHOOSE c \in S : \A e \in S : e <= c

\* C11: a SNAPSHOT that is sent carries the nodes and the render() of its
\* sender's store, and the replica that handles it ends with exactly the
\* nodes it lists, rendered as the sender rendered them, an empty pending
\* buffer, and a Lamport counter at least the greatest counter listed.
C11_SnapshotApplied ==
    [][/\ \A d \in net' \ net : d.msg.type = "SNAPSHOT" =>
            LET s == crdt[d.msg.from_id]
            IN  /\ listed_nodes(d.msg.crdt_state) = nodes_of(s)
                /\ render(from_dict(d.msg.crdt_state)) = render(s)
       /\ \A d \in net : RecvSnapshot(d) =>
            LET r == d.to
            IN  /\ nodes_of(crdt'[r]) = listed_nodes(d.msg.crdt_state)
                /\ render(crdt'[r]) = render(from_dict(d.msg.crdt_state))
                /\ text'[r] = render(crdt'[r])
                /\ pending_ops'[r] = <<>>
                /\ crdt_counter'[r] >=
                       Max({n.id[1] : n \in listed_nodes(d.msg.crdt_state)})]_vars

\* A snapshot has just replaced the store of a replica whose pending buffer
\* held an operation, and raised its counter past zero.
C11_Witness ==
    /\ step.cleared >= 1
    /\ \E r \in Clients :
          /\ pending_ops[r] = <<>>
          /\ issued[r] = <<>>
          /\ crdt_counter[r] >= 2
          /\ node_count(crdt[r]) >= 3

\* C12: a replica that handles a STATE_CHECK of a peer P of its map sends
\* nothing when the hashes are equal; otherwise one SNAPSHOT to P when it has
\* more nodes, one REQUEST_SNAPSHOT to P when it has fewer, and on equal
\* counts one SNAPSHOT to P exactly when its client id is the greater; its
\* store is unchanged in every case.
C12_DecisionRule ==
    [][\A d \in net : (RecvStateCheck(d) /\ d.msg.from_id \in peers[d.to]) =>
          LET r    == d.to
              P    == d.msg.from_id
              mine == node_count(crdt[r])
              snap == [to |-> P, msg |-> [type |-> "SNAPSHOT", from_id |-> r,
                                          crdt_state |-> to_dict(crdt[r])]]
              req  == [to |-> P, msg |-> [type |-> "REQUEST_SNAPSHOT", from_id |-> r]]
              sent == IF d.msg.state_hash = state_hash(crdt[r], hashseed[r]) THEN {}
                      ELSE IF mine > d.msg.node_count THEN {snap}
                      ELSE IF mine < d.msg.node_count THEN {req}
                      ELSE IF StrRank[r] > StrRank[P] THEN {snap}
                      ELSE {}
          IN  /\ net' = (net \ {d}) \cup sent
              /\ crdt' = crdt]_vars

\* A STATE_CHECK with a different hash and the node count of its receiver
\* has been handled, and the receiver, whose id is the greater, has sent its
\* snapshot.
C12_Witness ==
    \E d \in handled : \E e \in net :
        /\ d.msg.type = "STATE_CHECK"
        /\ e.msg.type = "SNAPSHOT"
        /\ e.to = d.msg.from_id
        /\ e.msg.from_id = d.to
        /\ Len(e.msg.crdt_state.nodes) = d.msg.node_count
        /\ StrRank[d.to] > StrRank[d.msg.from_id]

\* C16: any two replicas whose render() strings are equal have equal
\* state_hash() values, each computed in its own process.
C16_HashOfRenderAlone ==
    \A r1 \in Clients : \A r2 \in Clients :
        render(crdt[r1]) = render(crdt[r2]) =>
            state_hash(crdt[r1], hashseed[r1]) = state_hash(crdt[r2], hashseed[r2])

\* C17: in every replica, every node but HEAD has its `after` among the
\* keys of nodes, snapshot loads included.
C17_ParentPresent ==
    \A r \in Clients : \A i \in DOMAIN crdt[r].nodes :
        i # HEAD => crdt[r].nodes[i].after \in DOMAIN crdt[r].nodes

\* A replica that issued nothing has loaded a snapshot and holds a node
\* whose parent is not HEAD.
C17_Witness ==
    \E r \in Clients :
        /\ \E d \in handled : d.to = r /\ d.msg.type = "SNAPSHOT"
        /\ issued[r] = <<>>
        /\ \E i \in DOMAIN crdt[r].nodes : crdt[r].nodes[i].after # HEAD

\* C18: without snapshot loads, no step removes a node from nodes or changes
\* its id, after or text, a deleted flag never goes back to false, and every
\* node but HEAD, tombstoned or not, stays in the children list of its parent.
C18_NodeLifecycle ==
    [][\A r \in Clients : \A i \in DOMAIN crdt[r].nodes :
          /\ i \in DOMAIN crdt'[r].nodes
          /\ crdt'[r].nodes[i].id = crdt[r].nodes[i].id
          /\ crdt'[r].nodes[i].after = crdt[r].nodes[i].after
          /\ crdt'[r].nodes[i].text = crdt[r].nodes[i].text
          /\ crdt[r].nodes[i].deleted => crdt'[r].nodes[i].deleted
          /\ i # HEAD => i \in Range(crdt'[r].children[crdt'[r].nodes[i].after])]_vars

\* A replica holds a tombstone it received from its peer, with a child that
\* a flush of the pending buffer applied.
C18_Witness ==
    /\ step.flushed >= 1
    /\ \E r \in Clients : \E i \in DOMAIN crdt[r].nodes :
          /\ crdt[r].nodes[i].deleted
          /\ i[2] # r
          /\ crdt[r].children[i] # <<>>

\* The ids on the way from HEAD to node i along the after pointers, HEAD
\* left out and i last.
RECURSIVE path(_, _)
path(s, i) == IF i = HEAD THEN <<>> ELSE Append(path(s, s.nodes[i].after), i)

\* Node i comes before node j in the pre-order traversal that takes the
\* children of a parent in descending OpId order: i is an ancestor of j, or
\* where their ways from HEAD part, the way to i takes the greater OpId.
before(s, i, j) ==
    LET p == path(s, i)
        q == path(s, j)
        same == {k \in 0..Min(Len(p), Len(q)) : SubSeq(p, 1, k) = SubSeq(q, 1, k)}
        k == Max(same)
    IN  IF k = Len(p) THEN Len(p) < Len(q)
        ELSE IF k = Len(q) THEN FALSE
        ELSE tuple_lt(q[k + 1], p[k + 1])

\* C19: the nodes render() takes its text from are exactly the non-deleted
\* nodes, each once, in the pre-order of the tree rooted at HEAD with the
\* children of a parent in descending OpId order and the subtree of a child,
\* tombstoned or not, before its next sibling; render() is their text in
\* that order and visible_id_map() their ids.
C19_RenderIsPreorder ==
    LET s == rga[1]
        v == visible_nodes_in_order(s)
    IN  /\ Range(v) = {i \in DOMAIN s.nodes : i # HEAD /\ ~s.nodes[i].deleted}
        /\ \A j \in 1..Len(v) : \A k \in 1..Len(v) : j < k => before(s, v[j], v[k])
        /\ render(s) = [k \in 1..Len(v) |-> s.nodes[v[k]].text[1]]
        /\ visible_id_map(s) = v

\* A tombstone with a visible child, next to a visible sibling of the
\* tombstone that has the smaller OpId.
C19_Witness ==
    LET s == rga[1]
    IN  \E i \in DOMAIN s.nodes : \E j \in DOMAIN s.nodes : \E k \in DOMAIN s.nodes :
          /\ s.nodes[i].deleted
          /\ j # HEAD /\ s.nodes[j].after = i /\ ~s.nodes[j].deleted
          /\ k # HEAD /\ k # i /\ s.nodes[k].after = s.nodes[i].after
          /\ ~s.nodes[k].deleted
          /\ tuple_lt(k, i)

\* The STATE_CHECK msg tells the hash and node count its sender has now.
current(msg) ==
    /\ msg.state_hash = state_hash(crdt[msg.from_id], hashseed[msg.from_id])
    /\ msg.node_count = node_count(crdt[msg.from_id])

\* C15: whenever the node sets of two peers differ, equal rendered strings
\* or not, the handling of a STATE_CHECK between them is a repair action: a
\* SNAPSHOT or a REQUEST_SNAPSHOT goes to the sender, or, on equal node
\* counts, the replica with the smaller client id waits for the snapshot of
\* the other.
C15_NodeSetSync ==
    [][\A d \in net :
          (/\ RecvStateCheck(d)
           /\ d.msg.from_id \in peers[d.to]
           /\ current(d.msg)
           /\ DOMAIN crdt[d.to].nodes # DOMAIN crdt[d.msg.from_id].nodes)
          => \/ \E e \in net' : /\ e.to = d.msg.from_id
                                 /\ e.msg.type \in {"SNAPSHOT", "REQUEST_SNAPSHOT"}
                                 /\ e.msg.from_id = d.to
             \/ /\ node_count(crdt[d.to]) = d.msg.node_count
                /\ StrRank[d.to] < StrRank[d.msg.from_id]]_vars

\* The SNAPSHOT datagram r sends to p of the store it has now.
snapshot_of(r, p) ==
    [to |-> p, msg |-> [type |-> "SNAPSHOT", from_id |-> r,
                        crdt_state |-> to_dict(crdt[r])]]

\* The STATE_CHECK message r sends of the store it has now.
state_check_of(r) ==
    [type |-> "STATE_CHECK", from_id |-> r,
     state_hash |-> state_hash(crdt[r], hashseed[r]),
     node_count |-> node_count(crdt[r])]

\* C13: for two peers whose stores differ and stay as they are during a
\* round of STATE_CHECKs, at most one sends the other a SNAPSHOT; on equal
\* node counts the one with the greater client id sends its SNAPSHOT and the
\* other sends none, and the replica that handles this SNAPSHOT then holds
\* the store of its sender.
C13_NoPingPong ==
    /\ [](\A r \in Clients : \A p \in Clients \ {r} :
            crdt[r].nodes # crdt[p].nodes =>
                ~ /\ snapshot_of(r, p) \in handle_state_check(r, state_check_of(p))
                  /\ snapshot_of(p, r) \in handle_state_check(p, state_check_of(r)))
    /\ [][\A d \in net :
            (/\ RecvStateCheck(d)
             /\ current(d.msg)
             /\ crdt[d.to].nodes # crdt[d.msg.from_id].nodes
             /\ node_count(crdt[d.to]) = d.msg.node_count)
            => IF StrRank[d.to] > StrRank[d.msg.from_id]
               THEN net' = (net \ {d}) \cup {snapshot_of(d.to, d.msg.from_id)}
               ELSE net' = net \ {d}]_vars
    /\ [][\A d \in net :
            (RecvSnapshot(d) /\ d = snapshot_of(d.msg.from_id, d.to))
            => /\ crdt'[d.to].nodes = crdt[d.msg.from_id].nodes
               /\ crdt'[d.to].children = crdt[d.msg.from_id].children
               /\ crdt'[d.msg.from_id] = crdt[d.msg.from_id]]_vars

\* Every two replicas render the same text.
SameRender == \A r \in Clients : \A p \in Clients : render(crdt[r]) = render(crdt[p])

\* C14: once the local edits have stopped, with the timers firing and the
\* datagrams handled sooner or later, the replicas reach a state from which
\* on every two of them render the same text for ever and no store changes
\* any more.
C14_Converges ==
    /\ <>[]SameRender
    /\ <>[][crdt' = crdt]_vars

\* The replicas, whose hashes are salted alike, render the same text after
\* one of them loaded the snapshot of the other.
C14_Witness ==
    /\ SameRender
    /\ hashseed["A"] = hashseed["B"]
    /\ \E d \in handled : d.msg.type = "SNAPSHOT"

\* C20: the client id of a replica is never a key of its own peer map,
\* whatever INVITE, INVITE_ACCEPT, PEER_ANNOUNCE and PEER_LEAVE datagrams it
\* has handled.
C20_SelfNotPeer == \A r \in DOMAIN peers : r \notin peers[r]

\* A replica in a session has handled a PEER_ANNOUNCE that announces it to
\* itself, and the inviting replica has handled its own INVITE.
C20_Witness ==
    /\ \E r \in DOMAIN peers :
          /\ peers[r] # {}
          /\ \E d \in handled :
                d.to = r /\ d.msg.type = "PEER_ANNOUNCE" /\ d.msg.peer_id = r
    /\ \E d \in handled : d.msg.type = "INVITE" /\ d.msg.from_id = d.to

\* The INVITE_ACCEPT datagram of r for the sender p of an invitation.
invite_accept_of(r, p) ==
    [to |-> p, msg |-> [type |-> "INVITE_ACCEPT", from_id |-> r]]

\* The INVITE_ACCEPT datagrams in a set of datagrams.
invite_accepts(ds) == {d \in ds : d.msg.type = "INVITE_ACCEPT"}

\* Handling an INVITE changes no peer map and sends nothing; it puts the
\* question to the user only when the sender is not the replica itself and
\* not in its peer map, and never for an id in ids[r].
invite_handled_rule(ids) ==
    \A d \in net :
        RecvInvite(d) =>
            /\ peers' = peers
            /\ net' = net
            /\ asking'[d.to] # asking[d.to] =>
                  /\ d.msg.from_id # d.to
                  /\ d.msg.from_id \notin peers[d.to]
                  /\ d.msg.invite_id \notin ids[d.to]
                  /\ asking'[d.to] = Append(asking[d.to], d.msg)

\* The answer to a waiting question: Yes adds the sender of the INVITE to
\* the peer map and sends it one INVITE_ACCEPT, No changes and sends nothing.
invite_answered_rule ==
    \A r \in DOMAIN peers : \A i \in DOMAIN asking[r] : \A reply \in BOOLEAN :
        Ask(r, i, reply) =>
            IF reply
            THEN /\ peers' = [peers EXCEPT ![r] = @ \cup {asking[r][i].from_id}]
                 /\ net' = net \cup {invite_accept_of(r, asking[r][i].from_id)}
            ELSE peers' = peers /\ net' = net

\* An INVITE_ACCEPT is sent by no other step than a Yes to a waiting question.
invite_accept_sent_rule ==
    \A d \in invite_accepts(net') \ invite_accepts(net) :
        \E i \in DOMAIN asking[d.msg.from_id] :
            /\ Ask(d.msg.from_id, i, TRUE)
            /\ asking[d.msg.from_id][i].from_id = d.to

\* C21 as stated: an INVITE adds its sender to the peer map and has an
\* INVITE_ACCEPT sent back only if the sender is not the replica, is not in
\* the peer map, the invite id was not seen and the user says Yes; otherwise
\* the peer map is unchanged and no INVITE_ACCEPT is sent; and the user is
\* asked about one invite id at most once.
C21_InviteAcceptance ==
    [][/\ invite_handled_rule(prompted)
       /\ invite_answered_rule
       /\ invite_accept_sent_rule]_vars

\* C21, amended: the same, the user being asked about one invite id at most
\* once for as long as leave_session has not cleared the seen-invite set,
\* which no other step makes smaller.
C21_InviteAcceptanceUntilLeave ==
    [][/\ invite_handled_rule(seen_invites)
       /\ invite_answered_rule
       /\ invite_accept_sent_rule
       /\ \A r \in DOMAIN peers :
             \/ seen_invites[r] \subseteq seen_invites'[r]
             \/ LeaveSession(r)]_vars

\* A replica whose user said Yes: it was asked about the invitation, the
\* sender is in its peer map and its INVITE_ACCEPT is on the way.
C21_Witness ==
    \E d \in handled :
        /\ d.msg.type = "INVITE"
        /\ d.msg.invite_id \in prompted[d.to]
        /\ asking[d.to] = <<>>
        /\ d.msg.from_id \in peers[d.to]
        /\ invite_accept_of(d.to, d.msg.from_id) \in net

\* The PEER_ANNOUNCE datagrams in a set of datagrams.
peer_announces(ds) == {d \in ds : d.msg.type = "PEER_ANNOUNCE"}

\* C22: when r handles the INVITE_ACCEPT of a newcomer n, it sends to every
\* peer x of its map a PEER_ANNOUNCE of n and to n a PEER_ANNOUNCE of x, and
\* no other; it adds n to its map, and after that sends n a SNAPSHOT of its
\* store.
C22_FanoutOnJoin ==
    [][/\ \A d \in net :
             (RecvInviteAccept(d) /\ d.msg.from_id # d.to) =>
                LET r == d.to
                    n == d.msg.from_id
                IN  /\ \A x \in peers[r] :
                          /\ send_peer_announce(x, n) \in net'
                          /\ send_peer_announce(n, x) \in net'
                    /\ peer_announces(net') \ peer_announces(net) \subseteq
                          {send_peer_announce(x, n) : x \in peers[r]}
                             \cup {send_peer_announce(n, x) : x \in peers[r]}
                    /\ peers' = [peers EXCEPT ![r] = @ \cup {n}]
                    /\ n \in notices'[r]
       /\ \A r \in DOMAIN peers : \A n \in notices[r] :
             CloseNotice(r, n) => snapshot_of(r, n) \in net']_vars

\* Nobody has left a session, and no INVITE_ACCEPT or PEER_ANNOUNCE is on
\* the way: all that were sent have been handled.
Introduced ==
    /\ leaves = 0
    /\ invite_accepts(net) = {}
    /\ peer_announces(net) = {}

\* The replicas that have sent an invitation.
inviters == {d.msg.from_id : d \in {x \in net : x.msg.type = "INVITE"}}

\* C23: once every INVITE_ACCEPT and PEER_ANNOUNCE of the joining replicas
\* has been handled, the peer relation is symmetric and complete: the peers
\* of a replica have the replica, and each other, in their peer maps.
C23_FullMesh ==
    Introduced =>
        /\ \A r \in DOMAIN peers : \A p \in peers[r] : r \in peers[p]
        /\ \A r \in DOMAIN peers :
              \A p \in peers[r] : \A q \in peers[r] \ {p} : q \in peers[p]

\* C24: leave_session, called in any state, sends PEER_LEAVE to every peer
\* of the map and returns with the peer map and the seen-invite set both
\* empty.
C24_LeaveClears ==
    [][\A r \in DOMAIN peers :
          LeaveSession(r) =>
              /\ \A p \in peers[r] :
                    [to |-> p, msg |-> [type |-> "PEER_LEAVE", from_id |-> r]]
                        \in net'
              /\ peers'[r] = {}
              /\ seen_invites'[r] = {}]_vars

\* The peers of the map r cleared when it left its session: the addressees
\* of r's PEER_LEAVE.
left_peers(r) ==
    {d.to : d \in {x \in net \cup handled :
                      x.msg.type = "PEER_LEAVE" /\ x.msg.from_id = r}}

\* r has neither handled an invitation since it left nor sent one.
stays_out(r) == seen_invites[r] = {} /\ r \notin inviters

\* C25: a leave_session call of a replica whose peer map is empty sends
\* nothing and changes nothing, and a replica that has left sends no
\* STATE_CHECK, SNAPSHOT or REQUEST_SNAPSHOT to a peer of the map it cleared
\* (the replicas of SpecLeave type nothing).
C25_LeaveSilences ==
    /\ [][\A r \in DOMAIN peers :
             LeaveSession(r) /\ peers[r] = {} =>
                 UNCHANGED <<net, peers, seen_invites, doc_vars>>]_vars
    /\ [][\A r \in DOMAIN peers :
             left_peers(r) # {} /\ stays_out(r) =>
                 \A d \in net' \ net :
                     ~ /\ d.msg.type \in {"STATE_CHECK", "SNAPSHOT",
                                          "REQUEST_SNAPSHOT"}
                       /\ d.msg.from_id = r
                       /\ d.to \in left_peers(r)]_vars

\* The state the claim names: RGA store, pending buffer, Lamport counter,
\* peer map, seen-invite set and cursor anchor.
gui_state == <<crdt, pending_ops, crdt_counter, peers, seen_invites, cursor_node>>

\* C26: a step of the listen thread (receive and decode, emit) leaves the
\* store, the pending buffer, the Lamport counter, the peer map, the
\* seen-invite set and the cursor anchor as they are, and a message is
\* handled only after the listen thread has emitted it.
C26_ThreadConfinement ==
    [][/\ Listen => UNCHANGED gui_state
       /\ \A d \in net :
             RecvCrdtInsert(d) \/ RecvCrdtDelete(d) => d \in queue[d.to]]_vars

\* A replica has applied a message its listen thread emitted, while that
\* thread already holds the next datagram.
C26_Witness ==
    \E r \in Clients :
        /\ recv_data[r] # <<>>
        /\ \E d \in queue[r] : d \in handled /\ d.msg.type = "CRDT_INSERT"
        /\ Cardinality(DOMAIN crdt[r].nodes) > 1

\* C27 (reassembly): once a replica has handled all n CHUNK datagrams of a
\* msg_id, in whatever order, it has dispatched the original message.
C27_Reassembly ==
    \A d \in net :
        d.msg.type = "CRDT_INSERT" =>
            ((\A i \in 0..(NChunks - 1) :
                  [to |-> d.to, msg |-> chunk(d, i)] \in handled)
                => d \in handled)

\* C28: in every state, so after every operation that was applied (local
\* or remote insert or delete, pending flush, snapshot load), the text of
\* the view is render() of the store and the caret of the view is the
\* position computed from the cursor anchor, which is at most the length of
\* the rendered text.
C28_ViewSynchronised ==
    \A r \in DOMAIN crdt :
        /\ text[r] = render(crdt[r])
        /\ caret[r] = get_cursor_position_from_node(crdt[r], cursor_node[r])
        /\ caret[r] <= Len(render(crdt[r]))

\* The anchor of a replica was tombstoned by a remote delete it applied, and
\* its caret stands behind a character that is still visible.
C28_Witness ==
    \E r \in DOMAIN crdt :
        /\ cursor_node[r] # HEAD
        /\ cursor_node[r] \in DOMAIN crdt[r].nodes
        /\ crdt[r].nodes[cursor_node[r]].deleted
        /\ caret[r] > 0
        /\ \E d \in handled :
              /\ d.to = r
              /\ d.msg.type = "CRDT_DELETE"
              /\ d.msg.node_id = cursor_node[r]

\* The nearest visible node on the way from node a up to HEAD, a included;
\* HEAD if there is none.
nearest_visible(s, a) ==
    LET p   == path(s, a)
        vis == {k \in 1..Len(p) : ~s.nodes[p[k]].deleted}
    IN  IF vis = {} THEN HEAD ELSE p[Max(vis)]

\* The caret the claim gives for anchor a in store s.
caret_from_anchor(s, a) ==
    IF a = HEAD \/ a \notin DOMAIN s.nodes THEN 0
    ELSE LET id_map == visible_id_map(s)
             v      == nearest_visible(s, a)
         IN  IF v = HEAD THEN 0
             ELSE CHOOSE k \in 1..Len(id_map) : id_map[k] = v

\* C29: for every store and every anchor, present or not, the position
\* _get_cursor_position_from_node computes is 0 for HEAD, i + 1 for an anchor
\* at index i of visible_id_map(), and otherwise that of the nearest visible
\* node up the `after` chain, or 0 if there is none or the anchor is absent;
\* the chain from an anchor to HEAD is shorter than the number of nodes.
C29_CaretFromAnchor ==
    \A a \in StoreIds \cup {HEAD} :
        /\ get_cursor_position_from_node(rga[1], a) = caret_from_anchor(rga[1], a)
        /\ a \in DOMAIN rga[1].nodes =>
              Len(path(rga[1], a)) < Cardinality(DOMAIN rga[1].nodes)

\* An anchor and its parent are tombstoned and the parent's parent is
\* visible: the walk takes two steps and ends behind that node.
C29_Witness ==
    \E a \in DOMAIN rga[1].nodes \ {HEAD} :
        LET p == rga[1].nodes[a].after
        IN  /\ rga[1].nodes[a].deleted
            /\ p # HEAD
            /\ rga[1].nodes[p].deleted
            /\ rga[1].nodes[p].after # HEAD
            /\ ~rga[1].nodes[rga[1].nodes[p].after].deleted
            /\ get_cursor_position_from_node(rga[1], a) > 0

\* What a paste of txt at r must have done in the step, from the anchor of
\* the caret and the Lamport counter before it.
multi_insert_rule(r, txt) ==
    LET m      == Len(txt)
        anchor == update_cursor_node_from_position(crdt[r], caret[r])
        new    == [k \in 1..m |-> <<crdt_counter[r] + k, r>>]
        old    == render(crdt[r])
        ops    == [k \in 1..m |->
                     [type    |-> "CRDT_INSERT",
                      after   |-> IF k = 1 THEN anchor ELSE new[k - 1],
                      node_id |-> new[k],
                      char    |-> <<txt[k]>>]]
    IN  /\ DOMAIN crdt'[r].nodes = DOMAIN crdt[r].nodes \cup {new[k] : k \in 1..m}
        /\ \A k \in 1..m :
              /\ new[k] \notin DOMAIN crdt[r].nodes
              /\ crdt'[r].nodes[new[k]] =
                    Node(new[k], IF k = 1 THEN anchor ELSE new[k - 1],
                         <<txt[k]>>, FALSE)
        /\ broadcast_insert(crdt[r], crdt_counter[r], r, anchor, txt).sent = ops
        /\ net' = net \cup {[to |-> p, msg |-> ops[k]] : p \in peers[r], k \in 1..m}
        /\ cursor_node'[r] = new[m]
        /\ render(crdt'[r]) =
              SubSeq(old, 1, caret[r]) \o txt \o SubSeq(old, caret[r] + 1, Len(old))
        /\ caret[r] = get_cursor_position_from_node(crdt[r], anchor)

\* C30: a local insert of a string of m characters creates m nodes in a
\* chain from the anchor, sends one CRDT_INSERT per character to every peer
\* in typing order, leaves the anchor at the last new node and renders the
\* characters together, in typing order, right after the anchor's position.
C30_MultiCharInsert ==
    [][\A r \in Clients : \A txt \in Texts(r, MaxPaste) :
          KeyPaste(r, txt) => multi_insert_rule(r, txt)]_vars

\* Two characters were pasted in front of a character that is still shown.
C30_Witness ==
    \E r \in Clients :
        /\ step.pasted = 2
        /\ Len(issued[r]) >= 2
        /\ cursor_node[r] = issued[r][Len(issued[r])]
        /\ caret[r] = 2
        /\ Len(text[r]) > 2

\* What the deletion at r of the character at place k (from 1) of the
\* visible id map must have done in the step.
local_delete_rule(r, k) ==
    LET id_map == visible_id_map(crdt[r])
        node   == id_map[k]
        anchor == IF k >= 2 THEN id_map[k - 1] ELSE HEAD
        op     == [type |-> "CRDT_DELETE", node_id |-> node]
        start  == update_cursor_node_from_position(crdt[r], caret[r])
    IN  /\ crdt'[r].nodes = [crdt[r].nodes EXCEPT ![node].deleted = TRUE]
        /\ ~crdt[r].nodes[node].deleted
        /\ cursor_node'[r] = anchor
        /\ broadcast_delete(crdt[r], start, k).sent = <<op>>
        /\ net' = net \cup {[to |-> p, msg |-> op] : p \in peers[r]}
        /\ caret'[r] = get_cursor_position_from_node(crdt'[r], anchor)
        /\ caret'[r] = k - 1

\* C31: Backspace at caret k >= 1 tombstones the k-th visible node and puts
\* the anchor on the one before it (HEAD when k = 1); Delete at caret
\* k < |map| tombstones the (k+1)-th and leaves the anchor on the k-th (HEAD
\* when k = 0); either sends exactly one CRDT_DELETE of that node to every
\* peer and ends with the caret at the anchor's position.
C31_LocalDelete ==
    [][\A r \in Clients :
          /\ KeyBackspace(r) => caret[r] >= 1 /\ local_delete_rule(r, caret[r])
          /\ KeyDelete(r) =>
                /\ caret[r] < Len(visible_id_map(crdt[r]))
                /\ local_delete_rule(r, caret[r] + 1)]_vars

\* A replica has tombstoned the second of its visible characters and told
\* its peer; its anchor is the first one and its caret stands behind it.
C31_Witness ==
    \E r \in Clients : \E n \in DOMAIN crdt[r].nodes :
        /\ crdt[r].nodes[n].deleted
        /\ \E p \in peers[r] :
              [to |-> p, msg |-> [type |-> "CRDT_DELETE", node_id |-> n]] \in net
        /\ cursor_node[r] # HEAD
        /\ ~crdt[r].nodes[cursor_node[r]].deleted
        /\ caret[r] = 1
        /\ crdt[r].nodes[n].after = cursor_node[r]

\* The ops of a pass that were not applied, in the order of the buffer.
RECURSIVE kept_ops(_, _)
kept_ops(ops, outcomes) ==
    IF ops = <<>> THEN <<>>
    ELSE (IF Head(outcomes) THEN <<>> ELSE <<Head(ops)>>)
         \o kept_ops(Tail(ops), Tail(outcomes))

\* What C32 says of the passes ps of one flush.
flush_rule(ps) ==
    LET n == Len(ps)
    IN  /\ \A i \in 1..n :
              LET p   == ps[i]
                  out == pass_outcomes(p.store, p.ops)
              IN  /\ p.made_progress <=> (\E j \in 1..Len(out) : out[j])
                  /\ p.made_progress => Len(p.remaining) < Len(p.ops)
                  /\ p.made_progress <=> i < n
                  /\ p.remaining = kept_ops(p.ops, out)
                  /\ i < n => ps[i + 1].ops = p.remaining
        /\ n > 0 => n <= Len(ps[1].ops) + 1

\* C32: the flush of the pending buffer terminates: each pass either applies
\* and removes at least one op or is the last one, the ops a pass keeps are
\* exactly those it did not apply, in the order they had, and there are at
\* most (buffer length + 1) passes; the buffer afterwards is what the last
\* pass kept.
C32_FlushTerminates ==
    [][\A d \in net :
          RecvCrdtInsert(d) =>
              LET ps == step'.passes
              IN  /\ flush_rule(ps)
                  /\ ps # <<>> =>
                        /\ ps[1].ops = pending_ops[d.to]
                        /\ pending_ops'[d.to] = ps[Len(ps)].remaining]_vars

\* C32 happens: a flush of a buffer of two ops took three passes (the second
\* op of the buffer was applied first, then the first, then nothing).
C32_Witness ==
    /\ Len(step.passes) = 3
    /\ Len(step.passes[1].ops) = 2
    /\ Len(step.passes[1].remaining) = 1

\* The inserts waiting in the pending buffer of r.
pending_inserts(r) ==
    {pending_ops[r][i] : i \in {j \in 1..Len(pending_ops[r]) :
                                    pending_ops[r][j][1] = "insert"}}

\* C33: a replica's Lamport counter is at least the counter of every node of
\* its store and of every insert in its pending buffer; every CRDT_INSERT a
\* replica generated carries an OpId greater than that of its `after` node;
\* in every store every non-HEAD node's OpId is greater than its parent's.
C33_CausalIdOrder ==
    /\ \A r \in Clients :
          /\ \A n \in DOMAIN crdt[r].nodes : n[1] <= crdt_counter[r]
          /\ \A op \in pending_inserts(r) : op[3][1] <= crdt_counter[r]
          /\ \A n \in DOMAIN crdt[r].nodes \ {HEAD} :
                tuple_lt(crdt[r].nodes[n].after, n)
    /\ \A d \in net :
          d.msg.type = "CRDT_INSERT" => tuple_lt(d.msg.after, d.msg.node_id)

\* C33 happens: a replica's counter was raised by an insert it had to buffer,
\* and the character it typed next got an OpId above the buffered one.
C33_Witness ==
    \E r \in Clients :
        \E op \in pending_inserts(r) :
            /\ op[3][2] # r
            /\ op[3][1] = 2
            /\ \E n \in DOMAIN crdt[r].nodes :
                  /\ n[2] = r
                  /\ n[1] = crdt_counter[r]
                  /\ op[3][1] < n[1]

RECURSIVE dfs_calls(_, _), dfs_calls_children(_, _)

\* The nodes the closure dfs of _visible_nodes_in_order is called on below
\* parent, in the order of the calls: every child, tombstoned or not.
dfs_calls_children(s, cs) ==
    IF cs = <<>> THEN <<>>
    ELSE <<Head(cs)>> \o dfs_calls(s, Head(cs)) \o dfs_calls_children(s, Tail(cs))

dfs_calls(s, parent) ==
    dfs_calls_children(s, IF parent \in DOMAIN s.children THEN s.children[parent]
                          ELSE <<>>)

\* The nodes reachable from the nodes of frontier through children.
RECURSIVE reachable_from(_, _, _)
reachable_from(s, frontier, seen) ==
    IF frontier = {} THEN seen
    ELSE LET nxt == UNION {{s.children[p][i] : i \in 1..Len(s.children[p])} :
                              p \in frontier \cap DOMAIN s.children}
         IN  reachable_from(s, nxt \ (seen \cup frontier), seen \cup frontier)

\* What C34 says of one store.
index_consistent(s) ==
    LET ids == DOMAIN s.nodes
    IN  /\ HEAD \in ids
        /\ ~s.nodes[HEAD].deleted
        /\ DOMAIN s.children = ids
        /\ \A p \in ids :
              /\ {s.children[p][i] : i \in 1..Len(s.children[p])}
                    = {n \in ids \ {HEAD} : s.nodes[n].after = p}
              /\ \A i, j \in 1..Len(s.children[p]) :
                    s.children[p][i] = s.children[p][j] => i = j
        /\ reachable_from(s, {HEAD}, {}) = ids
        /\ LET calls == dfs_calls(s, HEAD)
           IN  /\ {calls[i] : i \in 1..Len(calls)} = ids \ {HEAD}
               /\ Len(calls) = Cardinality(ids) - 1

\* C34: in every reachable store HEAD is a node and is not tombstoned,
\* children[p] holds exactly the non-HEAD nodes whose after is p, each once,
\* every node is reachable from HEAD through children, and the traversal of
\* render() visits every non-HEAD node exactly once.
C34_IndexConsistent ==
    /\ \A r \in Clients : index_consistent(crdt[r])
    /\ \A x \in DOMAIN rga : index_consistent(rga[x])

\* C34 happens: a store loaded from a snapshot in which HEAD has two children.
C34_Witness ==
    \E d \in handled :
        /\ d.msg.type = "SNAPSHOT"
        /\ crdt[d.to] = from_dict(d.msg.crdt_state)
        /\ Len(crdt[d.to].children[HEAD]) >= 2

\* C35: a CRDT_INSERT, CRDT_DELETE or SNAPSHOT handled while the peer map of
\* the receiver is empty leaves its store, its pending buffer, its Lamport
\* counter and its view text unchanged.
C35_IsolatedAfterLeave ==
    [][\A d \in net :
          /\ peers[d.to] = {}
          /\ RecvCrdtInsert(d) \/ RecvCrdtDelete(d) \/ RecvSnapshot(d)
          => /\ crdt'[d.to] = crdt[d.to]
             /\ pending_ops'[d.to] = pending_ops[d.to]
             /\ crdt_counter'[d.to] = crdt_counter[d.to]
             /\ text'[d.to] = text[d.to]]_vars

\* C36: a replica that has left its session, and has since neither handled
\* an invitation nor ever broadcast one, has an empty peer map: no
\* PEER_ANNOUNCE or INVITE_ACCEPT puts a peer back.
C36_StaysOut ==
    \A r \in DOMAIN peers :
        left_peers(r) # {} /\ stays_out(r) => peers[r] = {}

\* The node n is in the store of every replica.
applied_everywhere(n) == \A r \in Clients : n \in DOMAIN crdt[r].nodes

\* The node n is tombstoned in the store of every replica.
deleted_everywhere(n) ==
    \A r \in Clients : n \in DOMAIN crdt[r].nodes /\ crdt[r].nodes[n].deleted

\* C37: a node that is in every replica's store is in every replica's store
\* after every step, and a node tombstoned in every store is tombstoned in
\* every store after every step, whatever STATE_CHECK, REQUEST_SNAPSHOT and
\* SNAPSHOT datagrams are handled.
C37_NoLostEdits ==
    [][\A q \in Clients : \A n \in DOMAIN crdt[q].nodes :
          /\ applied_everywhere(n) =>
                \A r \in Clients : n \in DOMAIN crdt'[r].nodes
          /\ deleted_everywhere(n) =>
                \A r \in Clients : /\ n \in DOMAIN crdt'[r].nodes
                                    /\ crdt'[r].nodes[n].deleted]_vars

\* C2: for a fixed set of operations, any two orders of apply_insert (with
\* `after` present) and apply_delete (on present nodes) that have applied the
\* same operations have produced the same nodes map and children lists.
C2_OrderIndependent ==
    applied[1] = applied[2] =>
        /\ rga[1].nodes = rga[2].nodes
        /\ rga[1].children = rga[2].children

\* The same operations, a tombstone among them, applied in two different
\* orders, with two siblings under one parent.
C2_Witness ==
    /\ applied[1] = applied[2]
    /\ rga[1].order # rga[2].order
    /\ \E o \in applied[1] : o.op = "delete"
    /\ \E p \in DOMAIN rga[1].children : Len(rga[1].children[p]) >= 2

\* C3: apply_insert(a, i, c) on a store that holds node i returns true and
\* leaves the store unchanged, whatever a and c are; apply_delete(i) on a
\* tombstoned node returns true and leaves the store unchanged.
C3_Idempotent ==
    [][/\ \A a \in StoreIds \cup {HEAD} : \A i \in StoreIds : \A c \in {<<"a">>, <<"b">>} :
            (has(rga[1], i) /\ CallInsert(a, i, c)) =>
                (ret' = <<TRUE>> /\ rga' = rga)
       /\ \A i \in StoreIds :
            (has(rga[1], i) /\ rga[1].nodes[i].deleted /\ CallDelete(i)) =>
                (ret' = <<TRUE>> /\ rga' = rga)]_vars

\* C7: from_dict(to_dict(s)) has the nodes, the children lists, the render(),
\* the state_hash() and the visible_id_map() of s, for every store s reached
\* through apply_insert and apply_delete.
C7_SnapshotRoundTrip ==
    LET s == rga[1]
        t == from_dict(to_dict(s))
    IN  /\ t.nodes = s.nodes
        /\ t.children = s.children
        /\ render(t) = render(s)
        /\ \A seed \in {1, 2} : state_hash(t, seed) = state_hash(s, seed)
        /\ visible_id_map(t) = visible_id_map(s)

\* A store with a tombstone, a visible node, and two siblings of which the
\* one inserted first has the smaller id.
C7_Witness ==
    LET s == rga[1]
    IN  /\ \E i \in DOMAIN s.nodes : s.nodes[i].deleted
        /\ render(s) # <<>>
        /\ \E j, k \in 1..Len(s.order) :
              /\ j < k
              /\ s.order[j] # HEAD
              /\ s.nodes[s.order[j]].after = s.nodes[s.order[k]].after
              /\ tuple_lt(s.order[j], s.order[k])

Spec == Init /\ [][Next]_vars

\* The session with the anti-entropy protocol.
NextAE ==
    \/ Next
    \/ \E r \in Clients : BroadcastStateCheck(r)
    \/ \E d \in net : RecvStateCheck(d)
    \/ \E d \in net : RecvRequestSnapshot(d)
    \/ \E d \in net : RecvSnapshot(d)

SpecAE == InitAE /\ [][NextAE]_vars

\* Edits and anti-entropy of SpecAE, with leave_session and PEER_LEAVE.
NextIsolate ==
    \/ NextAE
    \/ \E r \in Clients : LeaveSession(r)
    \/ \E d \in net : RecvPeerLeave(d)

SpecIsolate == Init /\ [][NextIsolate]_vars

\* The anti-entropy protocol alone, after the edits have stopped.
SpecRound == InitRound /\ [][NextRound]_vars

\* A SNAPSHOT datagram for r is in flight: RecvSnapshot is enabled for it,
\* and handling it changes net.
snapshot_waiting(r) ==
    \E d \in net : d.to = r /\ d.msg.type = "SNAPSHOT" /\ from_id(d.msg) # r

\* SpecRound with the timer of every replica firing for ever and every kind
\* of datagram handled sooner or later at every replica. The last conjunct
\* is weak fairness of RecvSnapshot at r, with its enabling condition
\* written out as snapshot_waiting(r).
SpecRoundFair ==
    /\ SpecRound
    /\ \A r \in Clients : WF_vars(TimerTick(r))
    /\ \A r \in Clients : WF_vars(\E d \in net : d.to = r /\ RecvStateCheck(d))
    /\ \A r \in Clients : WF_vars(\E d \in net : d.to = r /\ RecvRequestSnapshot(d))
    /\ \A r \in Clients :
         \/ []<>(~snapshot_waiting(r))
         \/ []<><<\E d \in net : d.to = r /\ RecvSnapshot(d)>>_vars

\* Editors joining and leaving sessions.
SpecMesh == InitMesh /\ [][NextMesh]_vars

\* One set of operations applied to two stores in any two orders.
\* The membership protocol with the anti-entropy timer: of its ticks, those
\* at a replica that has left a session are followed.
LeftTick(r) == left_peers(r) # {} /\ BroadcastStateCheck(r)

NextLeave ==
    \/ NextMesh
    \/ \E r \in Members : LeftTick(r)
    \/ \E d \in net : RecvStateCheck(d)

SpecLeave == InitMesh /\ [][NextLeave]_vars

SpecThreads == Init /\ [][NextThreads]_vars

SpecChunks == Init /\ [][NextChunks]_vars

SpecOrder == InitOrder /\ [][NextOrder]_vars

\* One store under any sequence of apply_insert and apply_delete calls.
SpecCalls == Init /\ [][NextCalls]_vars

====
